---- MODULE Spec2Model ----
(***************************************************************************)
(* The content pipeline of pinterest-auto-post: runPipeline and the Ledger  *)
(* queries it issues, with overlapping runs against one Ledger.  Every      *)
(* Ledger statement and every adapter call of a run either returns or       *)
(* fails; runs meet at the statements on the tables they share.             *)
(***************************************************************************)
EXTENDS Integers, Sequences, FiniteSets, TLC

\* Number of runPipeline invocations that may overlap.
NumRuns == 2
\* Number of Ledger statements / adapter calls that fail in one behaviour.
MaxFaults == 1
\* The same, when one run is followed on its own.
MaxSoloFaults == 2
\* Longest trend list of which every arrangement is given to the selector.
MaxTrends == 3
\* How often a three-item list is repeated to exceed MAX_TOPIC_CANDIDATES.
Repeats == 4
\* Most rows in the top list and in the rising list of a trend source.
MaxRows == 2
\* Number of awaited operations (Ledger operations and adapter calls) of a
\* run that are followed through the connection pool.
MaxOperations == 3
\* Largest run id followed through the template rotation.
MaxRunId == 6
\* Longest headline, in words, the content adapter returns.
MaxWords == 4
\* The clock of the token cache runs to MaxTicks steps of 30 seconds.
MaxTicks == 4

Procs == 1..NumRuns

-----------------------------------------------------------------------------
(* Keywords are sequences of characters, so that toLowerCase and includes   *)
(* are computed and not assumed.                                            *)

UpperChars == <<"A","B","C","D","E","F","G","H","I","J","K","L","M",
                "N","O","P","Q","R","S","T","U","V","W","X","Y","Z">>
LowerChars == <<"a","b","c","d","e","f","g","h","i","j","k","l","m",
                "n","o","p","q","r","s","t","u","v","w","x","y","z">>

ToLowerChar(c) ==
    IF \E i \in 1..Len(UpperChars) : UpperChars[i] = c
    THEN LowerChars[CHOOSE i \in 1..Len(UpperChars) : UpperChars[i] = c]
    ELSE c

toLowerCase(s) == [i \in 1..Len(s) |-> ToLowerChar(s[i])]

\* String.prototype.includes
includes(s, sub) ==
    \E i \in 0..(Len(s) - Len(sub)) : SubSeq(s, i + 1, i + Len(sub)) = sub

INDUSTRY_KEYWORDS ==
    << <<"f","o","o","d">>,
       <<"b","e","v","e","r","a","g","e">>,
       <<"b","e","v","e","r","a","g","e","s">>,
       <<"s","n","a","c","k","s">>,
       <<"w","h","o","l","e","s","a","l","e">>,
       <<"h","o","s","p","i","t","a","l","i","t","y">>,
       <<"o","f","f","i","c","e">>,
       <<"e","v","e","n","t","s">>,
       <<"c","a","t","e","r","i","n","g">>,
       <<"b","u","l","k">>,
       <<"c","o","m","m","e","r","c","i","a","l">>,
       <<"b","2","b">> >>

MAX_TOPIC_CANDIDATES == 10

\* How many supporting keywords a candidate carries: slice(0, 5).
MAX_SUPPORTING == 5

-----------------------------------------------------------------------------
(* scoreAndSelectTopicCandidates                                            *)

matchesIndustry(kw) ==
    \E i \in 1..Len(INDUSTRY_KEYWORDS) : includes(kw, INDUSTRY_KEYWORDS[i])

\* Faulty variant of matchesContext: one direction only.
matchesContextOneWay(kw, contextKeywords) ==
    \E j \in 1..Len(contextKeywords) : includes(kw, contextKeywords[j])

matchesContext(kw, contextKeywords) ==
    \E j \in 1..Len(contextKeywords) :
        includes(kw, contextKeywords[j]) \/ includes(contextKeywords[j], kw)

\* The .filter callback: a trend must match industry or context.
RelevantTrend(t, contextKeywords) ==
    LET kw == toLowerCase(t.keyword)
    IN  matchesIndustry(kw) \/ matchesContext(kw, contextKeywords)

\* t.score ?? 0 : a trend item may have no score field.
BaseScore(t) == IF "score" \in DOMAIN t THEN t.score ELSE 0

\* t.rising is optional too: undefined is falsy.
IsRising(t) == IF "rising" \in DOMAIN t THEN t.rising ELSE FALSE

\* The .map callback.
ScoreTrend(t, contextKeywords) ==
    LET kw == toLowerCase(t.keyword)
    IN  [keyword |-> t.keyword,
         score   |-> BaseScore(t)
                     + (IF IsRising(t) THEN 20 ELSE 0)
                     + (IF matchesIndustry(kw) THEN 10 ELSE 0)
                     + (IF matchesContext(kw, contextKeywords) THEN 10 ELSE 0)]

\* Faulty variant of InsertByScore: x goes before the elements of equal score.
RECURSIVE InsertByScoreUnstable(_, _)
InsertByScoreUnstable(x, s) ==
    IF s = <<>> THEN <<x>>
    ELSE IF Head(s).score > x.score
         THEN <<Head(s)>> \o InsertByScoreUnstable(x, Tail(s))
         ELSE <<x>> \o s

\* Insert x into the descending list s after every element that is not
\* smaller: with InsertionSort this is the stable sort of Array.prototype.sort
\* under the comparator (a, b) => b.score - a.score.
RECURSIVE InsertByScore(_, _)
InsertByScore(x, s) ==
    IF s = <<>> THEN <<x>>
    ELSE IF Head(s).score >= x.score
         THEN <<Head(s)>> \o InsertByScore(x, Tail(s))
         ELSE <<x>> \o s

RECURSIVE SortByScoreDesc(_)
SortByScoreDesc(s) ==
    IF s = <<>> THEN <<>>
    ELSE InsertByScore(s[Len(s)], SortByScoreDesc(SubSeq(s, 1, Len(s) - 1)))

Min(a, b) == IF a <= b THEN a ELSE b

\* s.filter((_, j) => j !== i): the sequence without its i-th element.
WithoutIndex(s, i) == SubSeq(s, 1, i - 1) \o SubSeq(s, i + 1, Len(s))

\* .slice(0, n)
Slice0(s, n) == SubSeq(s, 1, Min(n, Len(s)))

Keywords(s) == [i \in 1..Len(s) |-> s[i].keyword]

\* One {primary, supporting} pair: the i-th item of list and up to five others.
CandidateAt(list, i) ==
    [primary    |-> list[i].keyword,
     supporting |-> Keywords(Slice0(WithoutIndex(list, i), MAX_SUPPORTING))]

\* Faulty variant of scoreAndSelectTopicCandidates: no cut to the first
\* MAX_TOPIC_CANDIDATES.
scoreAndSelectEveryCandidate(trends, contextKeywords) ==
    LET kept   == SelectSeq(trends, LAMBDA t : RelevantTrend(t, contextKeywords))
        scored == SortByScoreDesc([i \in 1..Len(kept) |->
                                      ScoreTrend(kept[i], contextKeywords)])
    IN  [i \in 1..Len(scored) |-> CandidateAt(scored, i)]

scoreAndSelectTopicCandidates(trends, contextKeywords) ==
    LET kept   == SelectSeq(trends, LAMBDA t : RelevantTrend(t, contextKeywords))
        scored == SortByScoreDesc([i \in 1..Len(kept) |->
                                      ScoreTrend(kept[i], contextKeywords)])
        take   == Min(MAX_TOPIC_CANDIDATES, Len(scored))
    IN  [i \in 1..take |-> CandidateAt(scored, i)]

\* The fallback loop of runPipeline: every trend item becomes a candidate.
FallbackCandidates(trends) == [i \in 1..Len(trends) |-> CandidateAt(trends, i)]

-----------------------------------------------------------------------------
(* Inputs: what the environment and the adapters may hand to a run.         *)

KwBulk == <<"B","u","l","k">>
KwB2b  == <<"b","2","b">>
KwPie  == <<"p","i","e">>

\* A keyword interpolated into a log message.
Display(kw) ==
    CASE kw = KwBulk -> "Bulk"
      [] kw = KwB2b  -> "b2b"
      [] kw = KwPie  -> "pie"
      [] OTHER       -> "?"

TrendBulk == [keyword |-> KwBulk, score |-> 5, rising |-> FALSE]
TrendB2b  == [keyword |-> KwB2b, rising |-> TRUE]
TrendPie  == [keyword |-> KwPie, score |-> 50, rising |-> TRUE]

\* What a trend adapter may return.
TrendLists == { <<>>, <<TrendPie>>, <<TrendBulk, TrendB2b>> }

\* What extractContextKeywords may return.
ContextLists == { <<>>, <<KwPie>> }

KwSnack  == <<"S","n","a","c","k">>
KwOffice == <<"o","f","f","i","c","e">>
KwPies   == <<"p","i","e","s">>

\* "Snack" is contained in the industry term "snacks" and contains none.
TrendSnack  == [keyword |-> KwSnack, score |-> 5, rising |-> TRUE]
\* No rising field; scores 30 like TrendB2b.
TrendOffice == [keyword |-> KwOffice, score |-> 20]

\* The trend items the selector is tried on.
TrendPool == {TrendBulk, TrendB2b, TrendPie, TrendSnack, TrendOffice}

\* n copies of list, one after the other.
RECURSIVE Repeat(_, _)
Repeat(list, n) == IF n = 0 THEN <<>> ELSE list \o Repeat(list, n - 1)

\* Every list of up to MaxTrends pool items, and every three-item list
\* repeated Repeats times.
SelectorTrendLists ==
    UNION { [1..n -> TrendPool] : n \in 0..MaxTrends }
    \cup { Repeat(l, Repeats) : l \in [1..3 -> TrendPool] }

\* Context keyword lists: extractContextKeywords returns them lowercased.
SelectorContextLists == { <<>>, <<KwPie>>, <<KwPies>>, <<KwPies, KwPie>> }

\* The AppConfig fields runPipeline branches on.  useGetlate and useTemplated
\* are read only when DRY_RUN is false.
\* TEMPLATED stands for TEMPLATED_API_KEY and TEMPLATED_TEMPLATE_ID both set.
Configs ==
    { c \in [DRY_RUN : BOOLEAN, ALLOW_TOPIC_REUSE : BOOLEAN, BOXNCASE_MCP_URL : BOOLEAN,
             GETLATE_API_KEY : BOOLEAN, TEMPLATED : BOOLEAN,
             TEMPLATED_PAGE_COUNT : BOOLEAN] :
        /\ c.DRY_RUN => (~c.GETLATE_API_KEY /\ ~c.TEMPLATED)
        /\ c.TEMPLATED_PAGE_COUNT => (c.GETLATE_API_KEY /\ c.TEMPLATED) }

-----------------------------------------------------------------------------
VARIABLES
    config,   \* the AppConfig every invocation is started with
    proc,     \* per invocation of runPipeline: its position and its locals
    runs,     \* Ledger table runs, indexed by id
    topics,   \* Ledger table topics, indexed by id
    posts,    \* Ledger table posts, indexed by id
    assets,   \* Ledger table assets, indexed by id
    pins,     \* Ledger table pins, indexed by id
    logs,     \* Ledger table logs
    now,      \* the Ledger's clock, read by now() in finalizeRun
    faults,   \* how many calls have failed so far
    limit     \* how many calls may fail in this behaviour

vars == <<config, limit, proc, runs, topics, posts, assets, pins, logs, now, faults>>

ledger == <<runs, topics, posts, assets, pins, logs, now>>

\* Error messages.
LogInsertError   == "ledger: insert into logs failed"
RunInsertError   == "ledger: insert into runs failed"
RunUpdateError   == "ledger: update runs failed"
TopicSelectError == "ledger: select from topics failed"
TopicInsertError == "ledger: insert into topics failed"
TopicUpdateError == "ledger: update topics failed"
DuplicateTopicError ==
    "duplicate key value violates unique constraint topics_primary_keyword_key"
AdapterError     == "HTTP 500"

InitProc ==
    [pc |-> "createRun", runId |-> 0, trends |-> <<>>, contextKeywords |-> <<>>,
     candidates |-> <<>>, idx |-> 0, selected |-> <<>>, topicId |-> 0,
     postId |-> 0, assetId |-> 0, imageUrlForBlog |-> "", imageResult |-> FALSE,
     usedTemplatedForImage |-> FALSE, improvedImage |-> FALSE,
     blogImageUrl |-> "", pinImage |-> "", calls |-> <<>>,
     err |-> "", swallowed |-> FALSE, raised |-> ""]

Init ==
    /\ config \in Configs
    /\ proc = [p \in Procs |-> InitProc]
    /\ runs = <<>>
    /\ topics = <<>>
    /\ posts = <<>>
    /\ assets = <<>>
    /\ pins = <<>>
    /\ logs = {}
    /\ now = 1
    /\ faults = 0
    /\ limit = MaxFaults

-----------------------------------------------------------------------------
(* Helpers shared by the steps.                                             *)

\* The statements on the topics table and the insert of the Run row are the
\* places where two overlapping runs meet: each is one statement on its own
\* connection.  Everything a run does between two of them touches only its own
\* locals, its own Run row and its own log rows.
LedgerPoints ==
    {"createRun", "isTopicUsed", "getTopicIdByKeyword", "createTopic", "markTopicUsed"}

\* A run that has settled.
Settled == {"returned", "rejected"}

\* Run p is between two Ledger points.
Between(p) == proc[p].pc \notin LedgerPoints \cup Settled

\* Run p is at `label` and takes its step: the steps a run takes between two
\* Ledger points commute with every step of the other runs, so they are taken
\* without interleaving and the runs interleave at the Ledger points.
At(p, label) ==
    /\ proc[p].pc = label
    /\ \A q \in Procs \ {p} : ~Between(q)

\* A call that returns.
Works == faults' = faults

\* A call that fails: a Ledger statement or an adapter request.
Fails == faults < limit /\ faults' = faults + 1

Goto(p, label) == [proc[p] EXCEPT !.pc = label]

\* A throw inside the try block: control enters catch (err) with its message.
Caught(p, message) == [proc[p] EXCEPT !.pc = "catch", !.err = message]

\* Faulty variant of Called: the call made a second time.
CalledAndRetried(rec, adapter) == [rec EXCEPT !.calls = Append(Append(@, adapter), adapter)]
Called(rec, adapter) == [rec EXCEPT !.calls = Append(@, adapter)]

\* One runLog call: step, level, message.
Entry(step, level, message) == [step |-> step, level |-> level, message |-> message]

\* db.logEvent: the logs table after the first k of the entries were inserted
\* for the run, in order.
logEvent(runId, entries, k) ==
    LET base == Cardinality({l \in logs : l.run_id = runId})
    IN  logs \cup { [run_id |-> runId, step |-> entries[i].step,
                     level |-> entries[i].level, message |-> entries[i].message,
                     n |-> base + i] : i \in 1..k }

\* The same continuation whichever of n log inserts fails.
Each(n, rec) == [k \in 1..n |-> rec]

\* A row of awaited runLog calls that follow one another with no other await
\* between them, after `spent` calls of the same step have already failed.
\* Either every insert returns and the run goes on as ok, or the k-th insert
\* fails, the ones before it stay, and the run goes on as thrown[k] (runLog has
\* no catch of its own, so the rejection reaches the nearest enclosing handler).
runLogAfter(spent, p, runId, entries, ok, thrown) ==
    \/ /\ faults + spent <= limit
       /\ faults' = faults + spent
       /\ logs' = logEvent(runId, entries, Len(entries))
       /\ proc' = [proc EXCEPT ![p] = ok]
    \/ \E k \in 1..Len(entries) :
          /\ faults + spent + 1 <= limit
          /\ faults' = faults + spent + 1
          /\ logs' = logEvent(runId, entries, k - 1)
          /\ proc' = [proc EXCEPT ![p] = thrown[k]]

runLog(p, runId, entries, ok, thrown) == runLogAfter(0, p, runId, entries, ok, thrown)

\* db.finalizeRun: update runs set finished_at = now(), status, error_summary.
finalizeRun(runId, status, errorSummary) ==
    /\ runs' = [runs EXCEPT ![runId] =
                   [@ EXCEPT !.status = status, !.error_summary = errorSummary,
                             !.finished_at = now]]
    /\ now' = now + 1

\* Faulty variant of isTopicUsed: only status used counts.
isTopicMarkedUsed(keyword) ==
    \E i \in 1..Len(topics) :
        /\ topics[i].primary_keyword = keyword
        /\ topics[i].status = "used"

\* select 1 from topics where primary_keyword = $1 and status in (...)
isTopicUsed(keyword) ==
    \E i \in 1..Len(topics) :
        /\ topics[i].primary_keyword = keyword
        /\ topics[i].status \in {"selected", "used"}

\* Faulty variant of getTopicIdByKeyword: a lookup that finds no row.
getTopicIdByKeywordMissing(keyword) == 0

\* select id from topics where primary_keyword = $1 limit 1 (0 for null)
getTopicIdByKeyword(keyword) ==
    IF \E i \in 1..Len(topics) : topics[i].primary_keyword = keyword
    THEN CHOOSE i \in 1..Len(topics) : topics[i].primary_keyword = keyword
    ELSE 0

\* Faulty variant of ViolatesTopicUnique: a topics table created without the
\* unique constraint.
NoTopicConstraint(keyword) == FALSE

\* primary_keyword text not null unique
ViolatesTopicUnique(keyword) ==
    \E i \in 1..Len(topics) : topics[i].primary_keyword = keyword

\* Faulty variant of ReuseEnabled: the override taken whatever the setting.
ReuseAlways == TRUE

\* if (config.ALLOW_TOPIC_REUSE) in the selection and in the topic commit
ReuseEnabled == config.ALLOW_TOPIC_REUSE

\* update topics set status = 'used' where id = $1
markTopicUsed(topicId) ==
    topics' = [topics EXCEPT ![topicId].status = "used"]

-----------------------------------------------------------------------------
(* runPipeline.  A step of a run is one Ledger statement on shared tables or *)
(* one adapter call, together with the runLog calls and the writes to the    *)
(* run's own rows that follow it before the next such statement or call.     *)

\* Lines 180-184 and 194-196: db.createRun, the "Pipeline started" event in
\* the same withClient (outside the try block: its failure rejects runPipeline
\* at once), and the DRY_RUN notice (inside the try block).  Invocations are
\* numbered in the order they reach createRun.
CreateRun(p) ==
    /\ At(p, "createRun")
    /\ \A q \in Procs : q < p => proc[q].pc # "createRun"
    /\ LET id == Len(runs) + 1
           me == [proc[p] EXCEPT !.runId = id]
       IN  \/ /\ runs' = Append(runs, [status |-> "running", error_summary |-> "",
                                       started_at |-> now, finished_at |-> 0])
              /\ runLog(p, id,
                     <<Entry("orchestrator", "info", "Pipeline started")>>
                       \o (IF config.DRY_RUN
                           THEN <<Entry("orchestrator", "info",
                                        "DRY_RUN enabled; skipping external calls")>>
                           ELSE <<>>),
                     [me EXCEPT !.pc = "fetch_trends"],
                     <<[me EXCEPT !.pc = "rejected", !.raised = LogInsertError],
                       [me EXCEPT !.pc = "catch", !.err = LogInsertError]>>)
           \/ /\ Fails
              /\ UNCHANGED <<runs, logs>>
              /\ proc' = [proc EXCEPT ![p] =
                             [@ EXCEPT !.pc = "rejected", !.raised = RunInsertError]]
    /\ UNCHANGED <<config, limit, topics, posts, assets, pins, now>>

-----------------------------------------------------------------------------
(* Topic discovery: lines 198-285.                                          *)

\* Lines 198-224: the configured trend adapter, its failure wrapped and
\* thrown, then the log of what it fetched.
FetchTrends(p) ==
    /\ At(p, "fetch_trends")
    /\ \/ \E list \in TrendLists :
             LET me == Called([proc[p] EXCEPT !.trends = list], "trends")
             IN  runLog(p, me.runId,
                        <<Entry("topic_discovery", "info", "Fetched trend items")>>,
                        [me EXCEPT !.pc = IF config.BOXNCASE_MCP_URL
                                          THEN "fetch_context" ELSE "score"],
                        Each(1, Caught(p, LogInsertError)))
       \/ /\ Fails
          /\ logs' = logs
          /\ proc' = [proc EXCEPT ![p] =
                         Called(Caught(p, "Google Trends failed: " \o AdapterError),
                                "trends")]
    /\ UNCHANGED <<config, limit, runs, topics, posts, assets, pins, now>>

\* Faulty variant of FetchContext: a failed context request answered with no
\* context keywords instead of being thrown.
FetchContextTolerant(p) ==
    /\ At(p, "fetch_context")
    /\ \/ /\ Works
          /\ \E list \in ContextLists :
                proc' = [proc EXCEPT ![p] =
                            Called([@ EXCEPT !.pc = "score", !.contextKeywords = list],
                                   "context")]
       \/ /\ Fails
          /\ proc' = [proc EXCEPT ![p] = Called(Goto(p, "score"), "context")]
    /\ UNCHANGED <<config, limit, ledger>>

\* Lines 226-236: fetchBoxNCaseContext and extractContextKeywords, called
\* only when BOXNCASE_MCP_URL is set.
FetchContext(p) ==
    /\ At(p, "fetch_context")
    /\ \/ /\ Works
          /\ \E list \in ContextLists :
                proc' = [proc EXCEPT ![p] =
                            Called([@ EXCEPT !.pc = "score", !.contextKeywords = list],
                                   "context")]
       \/ /\ Fails
          /\ proc' = [proc EXCEPT ![p] =
                         Called(Caught(p, "BoxNCase MCP failed: " \o AdapterError),
                                "context")]
    /\ UNCHANGED <<config, limit, ledger>>

\* Faulty variant of CandidatesOf: no fallback to the unfiltered trends.
CandidatesWithoutFallback(trends, contextKeywords) ==
    scoreAndSelectTopicCandidates(trends, contextKeywords)

\* Lines 239-247: the candidates a run walks, the all-trends fallback
\* included.
CandidatesOf(trends, contextKeywords) ==
    LET scored == scoreAndSelectTopicCandidates(trends, contextKeywords)
    IN  IF Len(scored) = 0 /\ Len(trends) > 0
        THEN FallbackCandidates(trends)
        ELSE scored

\* Lines 237-260: log the context, score, fall back, and either give up,
\* take the first candidate (reuse override) or start walking them.
Score(p) ==
    /\ At(p, "score")
    /\ LET scored     == scoreAndSelectTopicCandidates(proc[p].trends,
                                                       proc[p].contextKeywords)
           fallback   == Len(scored) = 0 /\ Len(proc[p].trends) > 0
           candidates == CandidatesOf(proc[p].trends, proc[p].contextKeywords)
           me         == [proc[p] EXCEPT !.candidates = candidates]
       IN  runLog(p, me.runId,
                  <<Entry("topic_discovery", "info", "Context keywords")>>
                    \o (IF fallback
                        THEN <<Entry("topic_discovery", "info",
                                 "No industry match; using all trends as fallback for this run")>>
                        ELSE <<>>)
                    \o (IF Len(candidates) > 0 /\ ReuseEnabled
                        THEN <<Entry("topic_discovery", "info",
                                     "ALLOW_TOPIC_REUSE: selected first candidate: "
                                         \o Display(candidates[1].primary))>>
                        ELSE <<>>),
                  IF Len(candidates) = 0
                  THEN [me EXCEPT !.pc = "finalize_no_topic"]
                  ELSE IF ReuseEnabled
                       THEN [me EXCEPT !.selected = <<candidates[1]>>,
                                       !.pc = "getTopicIdByKeyword"]
                       ELSE [me EXCEPT !.idx = 1, !.pc = "isTopicUsed"],
                  Each(3, Caught(p, LogInsertError)))
    /\ UNCHANGED <<config, limit, runs, topics, posts, assets, pins, now>>

\* A finalizeRun awaited inside the try block and the runLog after it:
\* the update fails and is thrown, or it is made and the log follows.
FinalizeThenLog(p, status, errorSummary, entry) ==
    \/ /\ finalizeRun(proc[p].runId, status, errorSummary)
       /\ runLog(p, proc[p].runId, <<entry>>,
                 Goto(p, "returned"), Each(1, Caught(p, LogInsertError)))
    \/ /\ Fails
       /\ UNCHANGED <<runs, now, logs>>
       /\ proc' = [proc EXCEPT ![p] = Caught(p, RunUpdateError)]

\* Lines 248-254: no candidate; finalize failed, log, return.
FinalizeNoTopic(p) ==
    /\ At(p, "finalize_no_topic")
    /\ FinalizeThenLog(p, "failed", "No topic selected after scoring",
                       Entry("topic_discovery", "warn", "No topic selected"))
    /\ UNCHANGED <<config, limit, topics, posts, assets, pins>>

\* Faulty variant of WalkSelects: the answer of isTopicUsed ignored.
WalkSelectsAny(used) == TRUE

\* What the walk does with the answer of isTopicUsed for candidate c
\* (lines 263-266): an unused candidate is selected and the walk stops.
WalkSelects(used) == ~used

\* Lines 261-268: db.isTopicUsed for the candidate the walk is at; an unused
\* one is selected, a used one is logged and the walk moves on.
CheckTopicUsed(p) ==
    /\ At(p, "isTopicUsed")
    /\ LET c == proc[p].candidates[proc[p].idx]
       IN  \/ /\ WalkSelects(isTopicUsed(c.primary))
              /\ Works
              /\ logs' = logs
              /\ proc' = [proc EXCEPT ![p] =
                             [@ EXCEPT !.selected = <<c>>, !.pc = "createTopic"]]
           \/ /\ ~WalkSelects(isTopicUsed(c.primary))
              /\ runLog(p, proc[p].runId,
                        <<Entry("topic_discovery", "info",
                                "Topic already used, skipping: " \o Display(c.primary))>>,
                        IF proc[p].idx < Len(proc[p].candidates)
                        THEN [proc[p] EXCEPT !.idx = @ + 1]
                        ELSE Goto(p, "finalize_all_used"),
                        Each(1, Caught(p, LogInsertError)))
           \/ /\ Fails
              /\ logs' = logs
              /\ proc' = [proc EXCEPT ![p] = Caught(p, TopicSelectError)]
    /\ UNCHANGED <<config, limit, runs, topics, posts, assets, pins, now>>

\* Faulty variant of AllUsedSummary: the summary of the no-candidate exit.
NoTopicSummary == "No topic selected after scoring"

\* Line 271: the error_summary of a run whose candidates are all used.
AllUsedSummary == "All candidate topics already used"

\* Lines 269-275: every candidate was used; finalize failed, log, return.
FinalizeAllUsed(p) ==
    /\ At(p, "finalize_all_used")
    /\ FinalizeThenLog(p, "failed", AllUsedSummary,
                       Entry("topic_discovery", "warn",
                             "All candidate topics already used"))
    /\ UNCHANGED <<config, limit, topics, posts, assets, pins>>

SelectedEntry(c) ==
    Entry("topic_discovery", "info", "Selected topic: " \o Display(c.primary))

\* Lines 279-282 and 285: with the reuse override, look the keyword up; an
\* existing row's id is the run's topic id.
GetTopicId(p) ==
    /\ At(p, "getTopicIdByKeyword")
    /\ LET c        == proc[p].selected[1]
           existing == getTopicIdByKeyword(c.primary)
       IN  \/ /\ existing # 0
              /\ runLog(p, proc[p].runId, <<SelectedEntry(c)>>,
                        [proc[p] EXCEPT !.topicId = existing, !.pc = "generateContent"],
                        Each(1, Caught(p, LogInsertError)))
           \/ /\ existing = 0
              /\ Works
              /\ logs' = logs
              /\ proc' = [proc EXCEPT ![p] = Goto(p, "createTopic")]
           \/ /\ Fails
              /\ logs' = logs
              /\ proc' = [proc EXCEPT ![p] = Caught(p, TopicSelectError)]
    /\ UNCHANGED <<config, limit, runs, topics, posts, assets, pins, now>>

\* Faulty variant of createTopicRejected: an insert that answers a conflict
\* with the id of the row already there, so the run goes on.
createTopicOnConflict(p) ==
    [proc[p] EXCEPT !.topicId = getTopicIdByKeyword(proc[p].selected[1].primary),
                    !.pc = "generateContent"]

\* Lines 278-284: the insert rejected by the constraint rejects the query, and
\* the error leaves withClient for the handler.
createTopicRejected(p) == Caught(p, DuplicateTopicError)

\* Lines 283-285: db.createTopic.  The unique constraint on primary_keyword
\* rejects a second row for a keyword.
CreateTopic(p) ==
    /\ At(p, "createTopic")
    /\ LET c == proc[p].selected[1]
       IN  \/ /\ ~ViolatesTopicUnique(c.primary)
              /\ topics' = Append(topics,
                                  [primary_keyword |-> c.primary,
                                   supporting_keywords |-> c.supporting,
                                   status |-> "selected"])
              /\ runLog(p, proc[p].runId, <<SelectedEntry(c)>>,
                        [proc[p] EXCEPT !.topicId = Len(topics) + 1,
                                        !.pc = "generateContent"],
                        Each(1, [Caught(p, LogInsertError)
                                    EXCEPT !.topicId = Len(topics) + 1]))
           \/ /\ ViolatesTopicUnique(c.primary)
              /\ Works
              /\ UNCHANGED <<topics, logs>>
              /\ proc' = [proc EXCEPT ![p] = createTopicRejected(p)]
           \/ /\ Fails
              /\ UNCHANGED <<topics, logs>>
              /\ proc' = [proc EXCEPT ![p] = Caught(p, TopicInsertError)]
    /\ UNCHANGED <<config, limit, runs, posts, assets, pins, now>>

-----------------------------------------------------------------------------
(* Content generation: lines 287-301.                                       *)

\* Faulty variant of AfterContent: the DRY_RUN test of line 301 left out.
AfterContentAlwaysPublishes ==
    IF config.GETLATE_API_KEY THEN "getLocalTemplatePath" ELSE "getShopifyAccessToken"

\* Faulty variant of AfterContent: the DRY_RUN test of line 301 inverted for
\* the publishing branch, so that every run goes straight to markTopicUsed.
AfterContentNeverPublishes == "markTopicUsed"

\* Faulty variant of AfterContent: the blog is published before the pin
\* creative whatever poster is configured.
AfterContentBlogFirst ==
    IF config.DRY_RUN THEN "markTopicUsed" ELSE "getShopifyAccessToken"

\* Where a run goes after content generation: line 301 and line 312.
AfterContent ==
    IF config.DRY_RUN THEN "markTopicUsed"
    ELSE IF config.GETLATE_API_KEY THEN "getLocalTemplatePath"
         ELSE "getShopifyAccessToken"

GenerateContent(p) ==
    /\ At(p, "generateContent")
    /\ \/ runLog(p, proc[p].runId,
                 <<Entry("content_generation", "info",
                         "Generated blog and Pinterest copy")>>,
                 Called(Goto(p, AfterContent), "content"),
                 Each(1, Called(Caught(p, LogInsertError), "content")))
       \/ /\ Fails
          /\ logs' = logs
          /\ proc' = [proc EXCEPT ![p] =
                         Called(Caught(p, "OpenAI content failed: " \o AdapterError),
                                "content")]
    /\ UNCHANGED <<config, limit, runs, topics, posts, assets, pins, now>>

-----------------------------------------------------------------------------
(* Pin creative with Getlate configured: lines 312-432.                     *)

PinCreative(level, message) == Entry("pin_creative", level, message)

\* The image URLs a run may hold.
LocalTemplateUrl == "getlate:local-template"
RawImageUrl      == "getlate:raw"
RenderUrl        == "templated:render"
ImprovedUrl      == "getlate:improved"
RehostedUrl      == "getlate:rehosted"

\* Lines 314-316: getLocalTemplatePath never throws; it yields a path when the
\* templates directory holds an image and null otherwise.
GetLocalTemplatePath(p) ==
    /\ At(p, "getLocalTemplatePath")
    /\ \/ runLog(p, proc[p].runId, <<PinCreative("info", "Using local template")>>,
                 Goto(p, "addTextToLocalTemplate"), Each(1, Caught(p, LogInsertError)))
       \/ /\ Works
          /\ logs' = logs
          /\ proc' = [proc EXCEPT ![p] = Goto(p, "generatePinImage")]
    /\ UNCHANGED <<config, limit, runs, topics, posts, assets, pins, now>>

\* Faulty variant of LocalTemplateFailed: the fallback logged as an error.
LocalTemplateFailedAsError(p, me) ==
    runLogAfter(1, p, me.runId,
                <<Entry("pin_creative", "error", "Local template failed, falling back")>>,
                [me EXCEPT !.pc = "generatePinImage"],
                Each(1, [me EXCEPT !.pc = "catch", !.err = LogInsertError]))

\* The catch of lines 338-340, entered after one failed call: warn, and fall
\* back to a generated image.
LocalTemplateFailed(p, me) ==
    runLogAfter(1, p, me.runId,
                <<PinCreative("warn", "Local template failed, falling back")>>,
                [me EXCEPT !.pc = "generatePinImage"],
                Each(1, [me EXCEPT !.pc = "catch", !.err = LogInsertError]))

\* Lines 322-330: the image-edit adapter, inside the local-template try.
AddTextToLocalTemplate(p) ==
    /\ At(p, "addTextToLocalTemplate")
    /\ LET me == Called(proc[p], "image_edit")
       IN  \/ /\ Works
              /\ logs' = logs
              /\ proc' = [proc EXCEPT ![p] = [me EXCEPT !.pc = "uploadLocalTemplate"]]
           \/ LocalTemplateFailed(p, me)
    /\ UNCHANGED <<config, limit, runs, topics, posts, assets, pins, now>>

\* Lines 331-337: upload the edited template and log, still inside the try:
\* a failure of the upload or of the log insert is caught by lines 338-340,
\* the latter with imageUrlForBlog already assigned.
UploadLocalTemplate(p) ==
    /\ At(p, "uploadLocalTemplate")
    /\ LET me  == Called(proc[p], "upload")
           got == [me EXCEPT !.imageUrlForBlog = LocalTemplateUrl]
       IN  \/ /\ Works
              /\ logs' = logEvent(me.runId,
                            <<PinCreative("info", "Using local template with Gemini-added text")>>, 1)
              /\ proc' = [proc EXCEPT ![p] =
                             [got EXCEPT !.usedTemplatedForImage = TRUE,
                                         !.pc = "getShopifyAccessToken"]]
           \/ LocalTemplateFailed(p, got)
           \/ LocalTemplateFailed(p, me)
    /\ UNCHANGED <<config, limit, runs, topics, posts, assets, pins, now>>

\* Lines 345-354: the text-to-image adapter, wrapped and thrown on failure.
GeneratePinImage(p) ==
    /\ At(p, "generatePinImage")
    /\ LET me == Called(proc[p], "image_generate")
       IN  \/ runLog(p, me.runId, <<PinCreative("info", "Generated pin image")>>,
                     [me EXCEPT !.imageResult = TRUE, !.pc = "uploadImageToGetlate"],
                     Each(1, [me EXCEPT !.imageResult = TRUE, !.pc = "catch",
                                        !.err = LogInsertError]))
           \/ /\ Fails
              /\ logs' = logs
              /\ proc' = [proc EXCEPT ![p] =
                             [me EXCEPT !.pc = "catch",
                                        !.err = "Gemini image failed: " \o AdapterError]]
    /\ UNCHANGED <<config, limit, runs, topics, posts, assets, pins, now>>

\* Lines 366-370: the log before the template render.
TemplatedPageEntry ==
    IF config.TEMPLATED_PAGE_COUNT
    THEN PinCreative("info", "Using Templated template, page")
    ELSE PinCreative("warn", "Templated page rotation disabled")

\* Line 364: render into a template only when no local template was used, the
\* templating adapter is configured and there is an uploaded image.
RendersTemplate(me) ==
    ~me.usedTemplatedForImage /\ config.TEMPLATED /\ me.imageUrlForBlog # ""

\* Lines 355-370: upload the generated image (a failure is thrown as it is),
\* log, and go on to the template render or to the blog.
UploadImageToGetlate(p) ==
    /\ At(p, "uploadImageToGetlate")
    /\ LET me  == Called(proc[p], "upload")
           got == [me EXCEPT !.imageUrlForBlog = RawImageUrl]
       IN  \/ runLog(p, me.runId,
                     <<PinCreative("info", "Uploaded image to Getlate for blog and pin")>>
                       \o (IF RendersTemplate(got) THEN <<TemplatedPageEntry>> ELSE <<>>),
                     [got EXCEPT !.pc = IF RendersTemplate(got)
                                        THEN "createPinFromTemplated"
                                        ELSE "getShopifyAccessToken"],
                     Each(2, [got EXCEPT !.pc = "catch", !.err = LogInsertError]))
           \/ /\ Fails
              /\ logs' = logs
              /\ proc' = [proc EXCEPT ![p] =
                             [me EXCEPT !.pc = "catch", !.err = AdapterError]]
    /\ UNCHANGED <<config, limit, runs, topics, posts, assets, pins, now>>

\* Lines 371-385: the template render; its failure is logged as a warning and
\* the raw image is kept.
CreatePinFromTemplated(p) ==
    /\ At(p, "createPinFromTemplated")
    /\ LET me == Called(proc[p], "template_render")
       IN  \/ runLog(p, me.runId,
                     <<PinCreative("info", "Templated image generated"),
                       PinCreative("info", "Sending Templated image to Gemini for improvement...")>>,
                     [me EXCEPT !.usedTemplatedForImage = TRUE,
                                !.pc = "improveImageWithGemini"],
                     Each(2, [me EXCEPT !.usedTemplatedForImage = TRUE, !.pc = "catch",
                                        !.err = LogInsertError]))
           \/ runLogAfter(1, p, me.runId,
                     <<PinCreative("warn", "Templated.io failed, using raw image for blog and pin")>>,
                     [me EXCEPT !.pc = "getShopifyAccessToken"],
                     Each(1, [me EXCEPT !.pc = "catch", !.err = LogInsertError]))
    /\ UNCHANGED <<config, limit, runs, topics, posts, assets, pins, now>>

\* The level of the log written by the catch of lines 401-406.
RecreationFailedLevel == "error"

\* Lines 389-419.  The recreate/clean call and its success log are inside a
\* try whose catch (lines 401-406) logs and goes on.  improvedImage is
\* assigned before the success log, so a failed success log leaves it set and
\* the improved image is uploaded; a failed call leaves it null and the run
\* falls back to the rendered image.
ImproveImageWithGemini(p) ==
    /\ At(p, "improveImageWithGemini")
    /\ LET me       == Called(proc[p], "image_recreate")
           improved == [me EXCEPT !.improvedImage = TRUE]
           success  == PinCreative("info", "Gemini recreation successful")
           failed   == PinCreative(RecreationFailedLevel, "Gemini image recreation FAILED")
           upload   == PinCreative("info", "Uploading Gemini-improved image to Getlate...")
           fallback == PinCreative("warn",
                           "FALLBACK: Using Templated image without Gemini improvement")
       IN  \/ /\ Works
              /\ logs' = logEvent(me.runId, <<success, upload>>, 2)
              /\ proc' = [proc EXCEPT ![p] = [improved EXCEPT !.pc = "uploadImprovedImage"]]
           \/ /\ Fails
              /\ logs' = logEvent(me.runId, <<success>>, 1)
              /\ proc' = [proc EXCEPT ![p] =
                             [improved EXCEPT !.pc = "catch", !.err = LogInsertError]]
           \/ runLogAfter(1, p, me.runId, <<failed, upload>>,
                          [improved EXCEPT !.pc = "uploadImprovedImage"],
                          Each(2, [improved EXCEPT !.pc = "catch", !.err = LogInsertError]))
           \/ runLogAfter(1, p, me.runId, <<failed, fallback>>,
                          [me EXCEPT !.pc = "reuploadImageUrlToGetlate"],
                          Each(2, [me EXCEPT !.pc = "catch", !.err = LogInsertError]))
    /\ UNCHANGED <<config, limit, runs, topics, posts, assets, pins, now>>

\* Lines 411-416: upload the improved image; a failure is thrown.
UploadImprovedImage(p) ==
    /\ At(p, "uploadImprovedImage")
    /\ LET me  == Called(proc[p], "upload")
           got == [me EXCEPT !.imageUrlForBlog = ImprovedUrl]
       IN  \/ runLog(p, me.runId,
                     <<PinCreative("info", "Using Gemini-improved image for blog and pin")>>,
                     [got EXCEPT !.pc = "getShopifyAccessToken"],
                     Each(1, [got EXCEPT !.pc = "catch", !.err = LogInsertError]))
           \/ /\ Fails
              /\ logs' = logs
              /\ proc' = [proc EXCEPT ![p] =
                             [me EXCEPT !.pc = "catch", !.err = AdapterError]]
    /\ UNCHANGED <<config, limit, runs, topics, posts, assets, pins, now>>

\* Lines 420-428: re-host the rendered image; on failure warn and keep the
\* render URL.
ReuploadImageUrlToGetlate(p) ==
    /\ At(p, "reuploadImageUrlToGetlate")
    /\ LET me == Called(proc[p], "rehost")
       IN  \/ runLog(p, me.runId,
                     <<PinCreative("warn", "Using unimproved Templated image")>>,
                     [me EXCEPT !.imageUrlForBlog = RehostedUrl,
                                !.pc = "getShopifyAccessToken"],
                     Each(1, [me EXCEPT !.imageUrlForBlog = RehostedUrl, !.pc = "catch",
                                        !.err = LogInsertError]))
           \/ runLogAfter(1, p, me.runId,
                     <<PinCreative("warn", "Re-upload Templated to Getlate failed, using Templated URL"),
                       PinCreative("warn", "Using unimproved Templated image")>>,
                     [me EXCEPT !.imageUrlForBlog = RenderUrl,
                                !.pc = "getShopifyAccessToken"],
                     <<[me EXCEPT !.pc = "catch", !.err = LogInsertError],
                       [me EXCEPT !.imageUrlForBlog = RenderUrl, !.pc = "catch",
                                  !.err = LogInsertError]>>)
    /\ UNCHANGED <<config, limit, runs, topics, posts, assets, pins, now>>

-----------------------------------------------------------------------------
(* Blog publish and social post: lines 434-587.                             *)

\* Line 434: the static token, the cached one or a fetched one; the fetch
\* may fail and the failure is thrown as it is.
GetShopifyAccessToken(p) ==
    /\ At(p, "getShopifyAccessToken")
    /\ \/ /\ Works
          /\ proc' = [proc EXCEPT ![p] = Goto(p, "createBlogArticle")]
       \/ /\ Fails
          /\ proc' = [proc EXCEPT ![p] = Caught(p, "Shopify token request failed")]
    /\ UNCHANGED <<config, limit, ledger>>

\* Lines 435-454: publish the article with imageUrlForBlog as its image
\* (blogImageUrl is the imageUrl argument of the call).
CreateBlogArticle(p) ==
    /\ At(p, "createBlogArticle")
    /\ LET me == [Called(proc[p], "blog_publish")
                     EXCEPT !.blogImageUrl = proc[p].imageUrlForBlog]
       IN  \/ runLog(p, me.runId, <<Entry("blog_publish", "info", "Published")>>,
                     [me EXCEPT !.pc = "createPost"],
                     Each(1, [me EXCEPT !.pc = "catch", !.err = LogInsertError]))
           \/ /\ Fails
              /\ logs' = logs
              /\ proc' = [proc EXCEPT ![p] =
                             [me EXCEPT !.pc = "catch",
                                        !.err = "Shopify publish failed: " \o AdapterError]]
    /\ UNCHANGED <<config, limit, runs, topics, posts, assets, pins, now>>

\* Line 466: a pin image is generated now when none was produced before.
NeedsPinImage(me) == me.imageUrlForBlog = "" /\ ~me.imageResult

\* Lines 482-483, 504-516 and 547-549: how the social branch is entered.  The
\* aggregator and the direct poster log; the templating-only branch needs
\* GETLATE_API_KEY for an image URL and is reached only without it, so it
\* throws.  log is what is logged first, throw the message thrown ("" if none).
SocialBranch(me) ==
    IF config.GETLATE_API_KEY
    THEN [log   |-> <<PinCreative("info", "Using Getlate for Pinterest")>>,
          throw |-> ""]
    ELSE IF config.TEMPLATED
         THEN [log   |-> <<>>,
               throw |-> IF ~me.imageResult
                         THEN "Templated path requires generated image"
                         ELSE "Templated.io needs image_url. Set GETLATE_API_KEY to upload the image and get a URL."]
         ELSE IF ~me.imageResult
              THEN [log   |-> <<>>,
                    throw |-> "Direct Pinterest path requires generated image"]
              ELSE [log   |-> <<PinCreative("info",
                                   "Skipping Canva (no template/key); using Gemini image for pin")>>,
                    throw |-> ""]

\* The logs in `before`, then the entry into the social branch.
EnterSocialBranch(p, me, before) ==
    LET branch == SocialBranch(me)
    IN  runLog(p, me.runId, before \o branch.log,
               IF branch.throw = ""
               THEN [me EXCEPT !.pc = "createAsset"]
               ELSE [me EXCEPT !.pc = "catch", !.err = branch.throw],
               Each(2, [me EXCEPT !.pc = "catch", !.err = LogInsertError]))

\* Lines 456-466: db.createPost, then on to the pin image or the social branch.
CreatePost(p) ==
    /\ At(p, "createPost")
    /\ \/ /\ posts' = Append(posts, [topic_id |-> proc[p].topicId, status |-> "published"])
          /\ LET me == [proc[p] EXCEPT !.postId = Len(posts) + 1]
             IN  IF NeedsPinImage(me)
                 THEN /\ Works
                      /\ logs' = logs
                      /\ proc' = [proc EXCEPT ![p] =
                                     [me EXCEPT !.pc = "generatePinImageForPin"]]
                 ELSE EnterSocialBranch(p, me, <<>>)
       \/ /\ Fails
          /\ UNCHANGED <<posts, logs>>
          /\ proc' = [proc EXCEPT ![p] = Caught(p, "ledger: insert into posts failed")]
    /\ UNCHANGED <<config, limit, runs, topics, assets, pins, now>>

\* Lines 467-477: the text-to-image adapter for the pin, then the social branch.
GeneratePinImageForPin(p) ==
    /\ At(p, "generatePinImageForPin")
    /\ LET me == Called(proc[p], "image_generate")
       IN  \/ EnterSocialBranch(p, [me EXCEPT !.imageResult = TRUE],
                                <<PinCreative("info", "Generated pin image")>>)
           \/ /\ Fails
              /\ logs' = logs
              /\ proc' = [proc EXCEPT ![p] =
                             [me EXCEPT !.pc = "catch",
                                        !.err = "Gemini image failed: " \o AdapterError]]
    /\ UNCHANGED <<config, limit, runs, topics, posts, assets, pins, now>>

\* Faulty variant of AssetRow: every image recorded as a raw generated one.
AssetRowAlwaysRaw(me) ==
    [type        |-> "raw_image",
     provider    |-> "gemini",
     storage_url |-> IF config.GETLATE_API_KEY /\ me.imageUrlForBlog # ""
                     THEN me.imageUrlForBlog ELSE "gemini-inline"]

\* Lines 484-490 and 550-556: the Asset row of the aggregator branch and of
\* the direct branch.
AssetRow(me) ==
    IF config.GETLATE_API_KEY
    THEN [type        |-> IF me.usedTemplatedForImage THEN "templated_image" ELSE "raw_image",
          provider    |-> IF me.usedTemplatedForImage THEN "templated" ELSE "gemini",
          storage_url |-> IF me.imageUrlForBlog # "" THEN me.imageUrlForBlog
                          ELSE "gemini-inline"]
    ELSE [type |-> "raw_image", provider |-> "gemini", storage_url |-> "gemini-inline"]

\* db.createAsset.
CreateAsset(p) ==
    /\ At(p, "createAsset")
    /\ \/ /\ Works
          /\ assets' = Append(assets, AssetRow(proc[p]))
          /\ proc' = [proc EXCEPT ![p] =
                         [@ EXCEPT !.assetId = Len(assets) + 1, !.pc = "postPin"]]
       \/ /\ Fails
          /\ assets' = assets
          /\ proc' = [proc EXCEPT ![p] = Caught(p, "ledger: insert into assets failed")]
    /\ UNCHANGED <<config, limit, runs, topics, posts, pins, logs, now>>

\* The poster of the branch taken: lines 491 and 557.
Poster == IF config.GETLATE_API_KEY THEN "social_getlate" ELSE "social_pinterest"

\* Lines 491-503 and 557-574: the social post, wrapped and thrown on failure,
\* then the two pinterest_post logs (pinImage is the image argument of the
\* call).
PostPin(p) ==
    /\ At(p, "postPin")
    /\ LET me  == Called(proc[p], Poster)
           got == [me EXCEPT !.pinImage =
                                IF config.GETLATE_API_KEY /\ me.imageUrlForBlog # ""
                                THEN me.imageUrlForBlog ELSE "base64"]
       IN  \/ runLog(p, me.runId,
                     <<Entry("pinterest_post", "info", "Pin created"),
                       Entry("pinterest_post", "info", "Pin URL")>>,
                     [got EXCEPT !.pc = "createPin"],
                     Each(2, [got EXCEPT !.pc = "catch", !.err = LogInsertError]))
           \/ /\ Fails
              /\ logs' = logs
              /\ proc' = [proc EXCEPT ![p] =
                             [got EXCEPT !.pc = "catch",
                                        !.err = (IF config.GETLATE_API_KEY
                                                 THEN "Getlate pin failed: "
                                                 ELSE "Pinterest post failed: ")
                                                \o AdapterError]]
    /\ UNCHANGED <<config, limit, runs, topics, posts, assets, pins, now>>

\* Lines 576-585: db.createPin.
CreatePin(p) ==
    /\ At(p, "createPin")
    /\ \/ /\ Works
          /\ pins' = Append(pins, [post_id |-> proc[p].postId,
                                   image_asset_id |-> proc[p].assetId,
                                   status |-> "published"])
          /\ proc' = [proc EXCEPT ![p] = Goto(p, "markTopicUsed")]
       \/ /\ Fails
          /\ pins' = pins
          /\ proc' = [proc EXCEPT ![p] = Caught(p, "ledger: insert into pins failed")]
    /\ UNCHANGED <<config, limit, runs, topics, posts, assets, logs, now>>

\* Lines 586 and 589: db.markTopicUsed, after the Pin row or, in a dry run,
\* right after content generation.
MarkTopicUsed(p) ==
    /\ At(p, "markTopicUsed")
    /\ \/ /\ Works
          /\ markTopicUsed(proc[p].topicId)
          /\ proc' = [proc EXCEPT ![p] = Goto(p, "finalize_success")]
       \/ /\ Fails
          /\ topics' = topics
          /\ proc' = [proc EXCEPT ![p] = Caught(p, TopicUpdateError)]
    /\ UNCHANGED <<config, limit, runs, posts, assets, pins, logs, now>>

\* Lines 592-595: finalize success, log; the last statements of the try block.
FinalizeSuccess(p) ==
    /\ At(p, "finalize_success")
    /\ FinalizeThenLog(p, "success", "",
                       Entry("orchestrator", "info", "Pipeline finished successfully"))
    /\ UNCHANGED <<config, limit, topics, posts, assets, pins>>

-----------------------------------------------------------------------------
(* The handler: lines 596-603.                                              *)

\* What runPipeline rejects with when the handler's own log insert fails:
\* the awaited runLog at line 601 has no catch of its own.
HandlerLogFailure(err) == LogInsertError

\* Faulty variant of Catch: a handler that also releases the run's Topic.
CatchReleasingTopic(p) ==
    /\ At(p, "catch")
    /\ finalizeRun(proc[p].runId, "failed", proc[p].err)
    /\ topics' = IF proc[p].topicId # 0
                 THEN [topics EXCEPT ![proc[p].topicId].status = "new"]
                 ELSE topics
    /\ runLog(p, proc[p].runId, <<Entry("orchestrator", "error", proc[p].err)>>,
              [proc[p] EXCEPT !.pc = "rejected", !.raised = proc[p].err],
              Each(1, [proc[p] EXCEPT !.pc = "rejected",
                                      !.raised = HandlerLogFailure(proc[p].err)]))
    /\ UNCHANGED <<config, limit, posts, assets, pins>>

\* Lines 597-602: finalizeRun(failed, message) with its own failure swallowed
\* by .catch(() => { }), the error log, then throw err.
Catch(p) ==
    /\ At(p, "catch")
    /\ LET err  == proc[p].err
           done == [proc[p] EXCEPT !.pc = "rejected", !.raised = err]
           lost == [proc[p] EXCEPT !.pc = "rejected", !.raised = HandlerLogFailure(err)]
           log  == <<Entry("orchestrator", "error", err)>>
       IN  \/ /\ finalizeRun(proc[p].runId, "failed", err)
              /\ runLog(p, proc[p].runId, log, done, Each(1, lost))
           \/ /\ UNCHANGED <<runs, now>>
              /\ runLogAfter(1, p, proc[p].runId, log,
                             [done EXCEPT !.swallowed = TRUE],
                             Each(1, [lost EXCEPT !.swallowed = TRUE]))
    /\ UNCHANGED <<config, limit, topics, posts, assets, pins>>

-----------------------------------------------------------------------------
\* One step of invocation p.
Step(p) ==
    \/ CreateRun(p)
    \/ FetchTrends(p)
    \/ FetchContext(p)
    \/ Score(p)
    \/ FinalizeNoTopic(p)
    \/ CheckTopicUsed(p)
    \/ FinalizeAllUsed(p)
    \/ GetTopicId(p)
    \/ CreateTopic(p)
    \/ GenerateContent(p)
    \/ GetLocalTemplatePath(p)
    \/ AddTextToLocalTemplate(p)
    \/ UploadLocalTemplate(p)
    \/ GeneratePinImage(p)
    \/ UploadImageToGetlate(p)
    \/ CreatePinFromTemplated(p)
    \/ ImproveImageWithGemini(p)
    \/ UploadImprovedImage(p)
    \/ ReuploadImageUrlToGetlate(p)
    \/ GetShopifyAccessToken(p)
    \/ CreateBlogArticle(p)
    \/ CreatePost(p)
    \/ GeneratePinImageForPin(p)
    \/ CreateAsset(p)
    \/ PostPin(p)
    \/ CreatePin(p)
    \/ MarkTopicUsed(p)
    \/ FinalizeSuccess(p)
    \/ Catch(p)

Next == \E p \in Procs : Step(p)

Spec == Init /\ [][Next]_vars

-----------------------------------------------------------------------------
(* One run followed on its own, against a Ledger that earlier runs may have  *)
(* left topics in.                                                           *)

\* A Topic row left by an earlier run.
PriorTopic(keyword, status) ==
    [primary_keyword |-> keyword, supporting_keywords |-> <<>>, status |-> status]

\* The topics table a run may find.
PriorTopics ==
    { <<>>,
      <<PriorTopic(KwPie, "used")>>,
      <<PriorTopic(KwB2b, "used"), PriorTopic(KwBulk, "selected")>> }

SoloInit ==
    /\ config \in Configs
    /\ proc = [p \in Procs |-> InitProc]
    /\ runs = <<>>
    /\ topics \in PriorTopics
    /\ posts = <<>>
    /\ assets = <<>>
    /\ pins = <<>>
    /\ logs = {}
    /\ now = 1
    /\ faults = 0
    /\ limit = MaxSoloFaults

SoloNext == Step(1)

SoloSpec == SoloInit /\ [][SoloNext]_vars

-----------------------------------------------------------------------------
(* A run whose services may stay silent.  requestJson (lines 70-87) aborts  *)
(* its fetch after timeoutMs, so a silent service is a failed call there;   *)
(* the calls made with a bare fetch have no timer.                          *)

\* The steps whose call is a fetch without signal: uploadImageToGetlate
\* (getlatePin.ts 83, 101), reuploadImageUrlToGetlate (120),
\* createPinViaGetlate (188), createPinFromTemplated (templated.ts 181), the
\* image downloads of improveImageWithGemini (geminiImage.ts 89, 99) and the
\* Shopify token request.
UntimedPoints ==
    {"uploadLocalTemplate", "uploadImageToGetlate", "createPinFromTemplated",
     "improveImageWithGemini", "uploadImprovedImage", "reuploadImageUrlToGetlate",
     "getShopifyAccessToken"}
    \cup (IF config.GETLATE_API_KEY THEN {"postPin"} ELSE {})

\* The service never answers a call that has no timer: the await of the run
\* is never resumed.
NeverAnswers(p) ==
    /\ proc[p].pc \in UntimedPoints
    /\ proc' = [proc EXCEPT ![p] = Goto(p, "waiting")]
    /\ UNCHANGED <<config, limit, ledger, faults>>

SilentNext == Step(1) \/ NeverAnswers(1)

\* Each step of the run is taken once its call has been answered or has
\* failed: an await resumes when its promise settles.  Score is enabled
\* exactly while run 1 is at "score" and every Score step leaves it, so weak
\* fairness of Score(1) is stated as that position being left.
StepFairness ==
    /\ WF_vars(CreateRun(1))
    /\ WF_vars(FetchTrends(1))
    /\ WF_vars(FetchContext(1))
    /\ []<>(proc[1].pc # "score")
    /\ WF_vars(FinalizeNoTopic(1))
    /\ WF_vars(CheckTopicUsed(1))
    /\ WF_vars(FinalizeAllUsed(1))
    /\ WF_vars(GetTopicId(1))
    /\ WF_vars(CreateTopic(1))
    /\ WF_vars(GenerateContent(1))
    /\ WF_vars(GetLocalTemplatePath(1))
    /\ WF_vars(AddTextToLocalTemplate(1))
    /\ WF_vars(UploadLocalTemplate(1))
    /\ WF_vars(GeneratePinImage(1))
    /\ WF_vars(UploadImageToGetlate(1))
    /\ WF_vars(CreatePinFromTemplated(1))
    /\ WF_vars(ImproveImageWithGemini(1))
    /\ WF_vars(UploadImprovedImage(1))
    /\ WF_vars(ReuploadImageUrlToGetlate(1))
    /\ WF_vars(GetShopifyAccessToken(1))
    /\ WF_vars(CreateBlogArticle(1))
    /\ WF_vars(CreatePost(1))
    /\ WF_vars(GeneratePinImageForPin(1))
    /\ WF_vars(CreateAsset(1))
    /\ WF_vars(PostPin(1))
    /\ WF_vars(CreatePin(1))
    /\ WF_vars(MarkTopicUsed(1))
    /\ WF_vars(FinalizeSuccess(1))
    /\ WF_vars(Catch(1))

\* A call that is answered, or whose timer fires, resumes the run.
SilentSpec == SoloInit /\ [][SilentNext]_vars /\ StepFairness

-----------------------------------------------------------------------------
(* withClient: the connections a run holds.  runPipeline awaits each of its *)
(* Ledger operations and adapter calls before it starts the next one.       *)

\* The handlers runPipeline passes to withClient: the statements of each.
LedgerUnits ==
    { <<"createRun", "logEvent">>, <<"logEvent">>, <<"isTopicUsed">>, <<"finalizeRun">>,
      <<"getTopicIdByKeyword", "createTopic">>, <<"createTopic">>, <<"createPost">>,
      <<"createAsset">>, <<"createPin", "markTopicUsed">>, <<"markTopicUsed">> }

PoolInit ==
    /\ config = [DRY_RUN |-> FALSE, ALLOW_TOPIC_REUSE |-> TRUE,
                 BOXNCASE_MCP_URL |-> TRUE, GETLATE_API_KEY |-> TRUE,
                 TEMPLATED |-> TRUE, TEMPLATED_PAGE_COUNT |-> TRUE]
    /\ proc = [p \in Procs |->
                  [pc |-> "idle", held |-> 0, pending |-> <<>>, thrown |-> FALSE,
                   awaited |-> 0, released |-> 0]]
    /\ runs = <<>>
    /\ topics = <<>>
    /\ posts = <<>>
    /\ assets = <<>>
    /\ pins = <<>>
    /\ logs = {}
    /\ now = 1
    /\ faults = 0
    /\ limit = MaxOperations

\* await withClient(url, handler): the run starts a Ledger operation.
BeginLedgerOperation ==
    /\ proc[1].pc = "idle"
    /\ proc[1].awaited < MaxOperations
    /\ \E unit \in LedgerUnits :
          proc' = [proc EXCEPT ![1].pc = "connect", ![1].pending = unit,
                               ![1].thrown = FALSE]
    /\ UNCHANGED <<config, limit, ledger, faults>>

\* Line 18: await getPool(databaseUrl).connect().  A rejected connect leaves
\* withClient before its try block, with no client.
Connect ==
    /\ proc[1].pc = "connect"
    /\ \/ /\ Works
          /\ proc' = [proc EXCEPT ![1].pc = "handler", ![1].held = @ + 1]
       \/ /\ Fails
          /\ proc' = [proc EXCEPT ![1].pc = "idle", ![1].pending = <<>>,
                                  ![1].thrown = TRUE, ![1].awaited = @ + 1]
    /\ UNCHANGED <<config, limit, ledger>>

\* Line 20: return await handler(client), one statement of the handler at a
\* time; a rejected statement ends the handler.
RunStatement ==
    /\ proc[1].pc = "handler"
    /\ \/ /\ Works
          /\ proc' = [proc EXCEPT ![1].pending = Tail(@),
                                  ![1].pc = IF Len(proc[1].pending) = 1
                                            THEN "finally" ELSE "handler"]
       \/ /\ Fails
          /\ proc' = [proc EXCEPT ![1].pending = <<>>, ![1].thrown = TRUE,
                                  ![1].pc = "finally"]
    /\ UNCHANGED <<config, limit, ledger>>

\* Faulty variant of Release: the connection given back only when the
\* handler returned, as without the finally block.
ReleaseOnReturn ==
    /\ proc[1].pc = "finally"
    /\ proc' = [proc EXCEPT ![1].pc = "idle", ![1].awaited = @ + 1,
                            ![1].held = IF proc[1].thrown THEN @ ELSE @ - 1,
                            ![1].released = IF proc[1].thrown THEN @ ELSE @ + 1]
    /\ UNCHANGED <<config, limit, ledger, faults>>

\* Lines 21-23: finally { client.release() }, then withClient settles.
Release ==
    /\ proc[1].pc = "finally"
    /\ proc' = [proc EXCEPT ![1].pc = "idle", ![1].held = @ - 1, ![1].awaited = @ + 1,
                            ![1].released = @ + 1]
    /\ UNCHANGED <<config, limit, ledger, faults>>

\* await adapter(...): the run starts an external call.
BeginAdapterCall ==
    /\ proc[1].pc = "idle"
    /\ proc[1].awaited < MaxOperations
    /\ proc' = [proc EXCEPT ![1].pc = "adapter"]
    /\ UNCHANGED <<config, limit, ledger, faults>>

\* The external call returns or fails, and the run goes on.
AdapterSettles ==
    /\ proc[1].pc = "adapter"
    /\ \/ /\ Works
          /\ proc' = [proc EXCEPT ![1].pc = "idle", ![1].thrown = FALSE,
                                  ![1].awaited = @ + 1]
       \/ /\ Fails
          /\ proc' = [proc EXCEPT ![1].pc = "idle", ![1].thrown = TRUE,
                                  ![1].awaited = @ + 1]
    /\ UNCHANGED <<config, limit, ledger>>

PoolNext ==
    \/ BeginLedgerOperation
    \/ Connect
    \/ RunStatement
    \/ Release
    \/ BeginAdapterCall
    \/ AdapterSettles

PoolSpec == PoolInit /\ [][PoolNext]_vars

-----------------------------------------------------------------------------
(* Template rotation: getTemplatedOptions and getLocalTemplatePath as       *)
(* functions of the run id.  TEMPLATED_TEMPLATE_IDS is the sequence of its  *)
(* comma-separated entries after trim, "" for a blank one; the page count   *)
(* is what the schema's parseInt leaves; a file name is a number standing   *)
(* for its place in sort order, with its extension.                         *)

\* Faulty variant of getTemplatedOptions: always the first id and page.
getTemplatedOptionsFirst(cfg, runId) ==
    LET list == SelectSeq(cfg.TEMPLATED_TEMPLATE_IDS, LAMBDA s : s # "")
        templateId == IF Len(list) > 0 THEN list[1] ELSE cfg.TEMPLATED_TEMPLATE_ID
        pageCount == cfg.TEMPLATED_PAGE_COUNT
    IN  [threw |-> templateId = "",
         templateId |-> templateId,
         pageIndex |-> IF pageCount.kind = "int" /\ pageCount.n > 0 THEN <<0>> ELSE <<>>]

\* Lines 127-140.  pageIndex is <<>> for undefined.
getTemplatedOptions(cfg, runId) ==
    LET list == SelectSeq(cfg.TEMPLATED_TEMPLATE_IDS, LAMBDA s : s # "")
        templateId == IF Len(list) > 0
                      THEN list[(runId % Len(list)) + 1]
                      ELSE cfg.TEMPLATED_TEMPLATE_ID
        pageCount == cfg.TEMPLATED_PAGE_COUNT
    IN  [threw |-> templateId = "",
         templateId |-> templateId,
         pageIndex |-> IF pageCount.kind = "int" /\ pageCount.n > 0
                       THEN <<runId % pageCount.n>> ELSE <<>>]

\* localTemplates.ts 9-29.  dir.files is what readdir returns when the
\* directory is readable; the result is <<>> for null.
getLocalTemplatePath(dir, runId) ==
    IF ~dir.readable THEN <<>>
    ELSE LET images == {f \in dir.files : f.ext \in {"jpg", "jpeg", "png", "JPG", "PNG"}}
             imageFiles == CHOOSE q \in [1..Cardinality(images) -> images] :
                               \A i, j \in 1..Cardinality(images) :
                                   i < j => q[i].name < q[j].name
         IN  IF Len(imageFiles) = 0 THEN <<>>
             ELSE <<imageFiles[(runId % Len(imageFiles)) + 1]>>

RotationInit ==
    /\ \E ids \in { <<>>, <<"">>, <<"tplA">>, <<"tplA", "tplB">>,
                     <<"tplA", "", "tplB", "tplC">> },
          id \in {"", "tpl0"},
          count \in {[kind |-> "undefined", n |-> 0], [kind |-> "NaN", n |-> 0]}
                    \cup {[kind |-> "int", n |-> k] : k \in -1..3} :
          config = [DRY_RUN |-> FALSE, ALLOW_TOPIC_REUSE |-> FALSE,
                    BOXNCASE_MCP_URL |-> TRUE, GETLATE_API_KEY |-> TRUE,
                    TEMPLATED |-> TRUE,
                    TEMPLATED_TEMPLATE_IDS |-> ids,
                    TEMPLATED_TEMPLATE_ID |-> id,
                    TEMPLATED_PAGE_COUNT |-> count]
    /\ \E first \in 1..2,
          dir \in { {}, {[name |-> 1, ext |-> "txt"]},
                    {[name |-> 2, ext |-> "png"], [name |-> 1, ext |-> "JPG"]},
                    {[name |-> 4, ext |-> "jpeg"], [name |-> 3, ext |-> "md"],
                     [name |-> 2, ext |-> "jpg"], [name |-> 1, ext |-> "png"]} } :
          proc = [p \in Procs |->
                    [pc |-> "rotate", runId |-> first, dir |-> dir, picked |-> <<>>]]
    /\ runs = <<>>
    /\ topics = <<>>
    /\ posts = <<>>
    /\ assets = <<>>
    /\ pins = <<>>
    /\ logs = {}
    /\ now = 1
    /\ faults = 0
    /\ limit = 1

\* A run picks its template: index.ts 314 and 365 / 517.  The templates
\* directory may have become unreadable by the time of the run.
Rotate ==
    /\ proc[1].pc = "rotate"
    /\ \E readable \in {TRUE} \cup {r \in {FALSE} : faults < limit} :
          LET dir == [readable |-> readable, files |-> proc[1].dir] IN
          /\ faults' = IF readable THEN faults ELSE faults + 1
          /\ proc' = [proc EXCEPT
                ![1].pc = "rotated",
                ![1].picked = Append(@,
                    [runId |-> proc[1].runId,
                     templated |-> getTemplatedOptions(config, proc[1].runId),
                     unreadable |-> ~readable,
                     local |-> getLocalTemplatePath(dir, proc[1].runId)])]
    /\ UNCHANGED <<config, limit, ledger>>

\* The next run gets the next id of the runs table's serial.
NextRunId ==
    /\ proc[1].pc = "rotated"
    /\ proc[1].runId < MaxRunId
    /\ proc' = [proc EXCEPT ![1].pc = "rotate", ![1].runId = @ + 1]
    /\ UNCHANGED <<config, limit, ledger, faults>>

RotationNext == Rotate \/ NextRunId

RotationSpec == RotationInit /\ [][RotationNext]_vars

-----------------------------------------------------------------------------
(* The social headline: sanitized once after content generation, then read  *)
(* by the later steps.  A headline is the sequence of its words.            *)

WordBest == <<"B","e","s","t">>
WordBestLower == <<"b","e","s","t">>
WordBestUpper == <<"B","E","S","T">>
WordPie == <<"P","i","e">>

\* Faulty variant of sanitizeHeadline: words compared as written.
sanitizeHeadlineExact(headline) ==
    LET kept[i \in 0..Len(headline)] ==
            IF i = 0 THEN << >>
            ELSE IF i = 1 \/ headline[i] # headline[i - 1]
                 THEN Append(kept[i - 1], headline[i])
                 ELSE kept[i - 1]
    IN  kept[Len(headline)]

\* sanitizeHeadline of services/geminiImage: every run of immediately
\* repeated words, compared without case, becomes its first word.
sanitizeHeadline(headline) ==
    LET kept[i \in 0..Len(headline)] ==
            IF i = 0 THEN << >>
            ELSE IF i = 1 \/ toLowerCase(headline[i]) # toLowerCase(headline[i - 1])
                 THEN Append(kept[i - 1], headline[i])
                 ELSE kept[i - 1]
    IN  kept[Len(headline)]

HeadlineInit ==
    /\ config = [DRY_RUN |-> FALSE, ALLOW_TOPIC_REUSE |-> FALSE,
                 BOXNCASE_MCP_URL |-> TRUE, GETLATE_API_KEY |-> TRUE,
                 TEMPLATED |-> TRUE, TEMPLATED_PAGE_COUNT |-> TRUE]
    /\ \E len \in 1..MaxWords :
          \E generated \in [1..len -> {WordBest, WordBestLower, WordBestUpper, WordPie}] :
              proc = [p \in Procs |->
                        [pc |-> "generated", generated |-> generated,
                         headline |-> generated, read |-> {}]]
    /\ runs = <<>>
    /\ topics = <<>>
    /\ posts = <<>>
    /\ assets = <<>>
    /\ pins = <<>>
    /\ logs = {}
    /\ now = 1
    /\ faults = 0
    /\ limit = 0

\* Line 299: content.pinterest.headline = sanitizeHeadline(content.pinterest.headline).
SanitizeHeadline ==
    /\ proc[1].pc = "generated"
    /\ proc' = [proc EXCEPT ![1].pc = "sanitized",
                            ![1].headline = sanitizeHeadline(@)]
    /\ UNCHANGED <<config, limit, ledger, faults>>

\* Lines 327, 375, 397, 495-581: a later step takes content.pinterest.headline
\* as its image text or title.
ReadHeadline ==
    /\ proc[1].pc = "sanitized"
    /\ \E reader \in {"addTextToLocalTemplate", "createPinFromTemplated",
                        "improveImageWithGemini", "postPin", "createPin"} :
          proc' = [proc EXCEPT ![1].read = @ \cup
                      {[reader |-> reader, headline |-> proc[1].headline]}]
    /\ UNCHANGED <<config, limit, ledger, faults>>

HeadlineNext == SanitizeHeadline \/ ReadHeadline

HeadlineSpec == HeadlineInit /\ [][HeadlineNext]_vars

-----------------------------------------------------------------------------
(* Configuration: main, loadConfig and the settings runPipeline reads on    *)
(* its image and social path.  An environment is the set of the settings    *)
(* that are set and not blank (DRY_RUN: set to true); the settings of the   *)
(* schema's required fields, of the trend source and of the blog are taken  *)
(* as supplied.                                                             *)

\* Lines 694-726 of loadConfig: the message thrown, "" when accepted.
loadConfig(env) ==
    LET useGetlate   == "GETLATE_API_KEY" \in env
        useTemplated == /\ "TEMPLATED_API_KEY" \in env
                        /\ \/ "TEMPLATED_TEMPLATE_ID" \in env
                           \/ "TEMPLATED_TEMPLATE_IDS" \in env
    IN  IF "DRY_RUN" \in env THEN ""
        ELSE IF useGetlate /\ "GETLATE_PINTEREST_ACCOUNT_ID" \notin env
        THEN "GETLATE_PINTEREST_ACCOUNT_ID is required when GETLATE_API_KEY is set"
        ELSE IF ~useGetlate /\ ~useTemplated
                 /\ ~({"GEMINI_IMAGE_API_URL", "GEMINI_API_KEY", "GEMINI_IMAGE_MODEL"}
                          \subseteq env)
        THEN "GEMINI_* is required when not using Getlate or Templated"
        ELSE IF ~useGetlate /\ ~useTemplated
                 /\ ~({"PINTEREST_API_BASE_URL", "PINTEREST_ACCESS_TOKEN", "PINTEREST_BOARD_ID"}
                          \subseteq env)
        THEN "PINTEREST_* is required when not using Getlate"
        ELSE IF useGetlate /\ "PINTEREST_BOARD_ID" \notin env
        THEN "PINTEREST_BOARD_ID is required when using Getlate"
        ELSE ""

\* The settings runPipeline reads on the path it takes with env, in the
\* order it reads them, each with whether the blog article exists by then.
\* Lines 302-305: the path is chosen by GETLATE_API_KEY and by
\* TEMPLATED_API_KEY with TEMPLATED_TEMPLATE_ID.  With the aggregator the
\* image settings are read before the blog (323-325, 346-348) and the
\* account and board after it (493-494); without it the image settings are
\* read after the blog (468-470), the templating branch then needs
\* GETLATE_API_KEY (506-516) and the direct branch the poster's settings
\* (558-560).
settingsRead(env) ==
    LET image(afterBlog) ==
            << [setting |-> "GEMINI_IMAGE_API_URL", afterBlog |-> afterBlog],
               [setting |-> "GEMINI_API_KEY", afterBlog |-> afterBlog],
               [setting |-> "GEMINI_IMAGE_MODEL", afterBlog |-> afterBlog] >>
    IN  IF "DRY_RUN" \in env THEN << >>
        ELSE IF "GETLATE_API_KEY" \in env
        THEN image(FALSE)
             \o << [setting |-> "GETLATE_PINTEREST_ACCOUNT_ID", afterBlog |-> TRUE],
                   [setting |-> "PINTEREST_BOARD_ID", afterBlog |-> TRUE] >>
        ELSE IF {"TEMPLATED_API_KEY", "TEMPLATED_TEMPLATE_ID"} \subseteq env
        THEN image(TRUE) \o << [setting |-> "GETLATE_API_KEY", afterBlog |-> TRUE] >>
        ELSE image(TRUE)
             \o << [setting |-> "PINTEREST_API_BASE_URL", afterBlog |-> TRUE],
                   [setting |-> "PINTEREST_ACCESS_TOKEN", afterBlog |-> TRUE],
                   [setting |-> "PINTEREST_BOARD_ID", afterBlog |-> TRUE] >>

ConfigInit ==
    /\ config \in SUBSET {"DRY_RUN", "GETLATE_API_KEY", "GETLATE_PINTEREST_ACCOUNT_ID",
                           "PINTEREST_BOARD_ID", "PINTEREST_API_BASE_URL",
                           "PINTEREST_ACCESS_TOKEN", "GEMINI_IMAGE_API_URL",
                           "GEMINI_API_KEY", "GEMINI_IMAGE_MODEL", "TEMPLATED_API_KEY",
                           "TEMPLATED_TEMPLATE_ID", "TEMPLATED_TEMPLATE_IDS"}
    /\ proc = [p \in Procs |->
                  [pc |-> "main", configError |-> "", runRow |-> FALSE,
                   blogArticle |-> FALSE, missing |-> ""]]
    /\ runs = <<>>
    /\ topics = <<>>
    /\ posts = <<>>
    /\ assets = <<>>
    /\ pins = <<>>
    /\ logs = {}
    /\ now = 1
    /\ faults = 0
    /\ limit = 0

\* main, lines 43-51: loadConfig; on a throw the message is kept and main
\* returns without a run.
LoadConfig ==
    /\ proc[1].pc = "main"
    /\ proc' = [proc EXCEPT ![1].configError = loadConfig(config),
                            ![1].pc = IF loadConfig(config) = ""
                                      THEN "runPipeline" ELSE "configError"]
    /\ UNCHANGED <<config, limit, ledger, faults>>

\* runPipeline with every adapter and the Ledger working: it is rejected at
\* the first setting it reads that is not set, and returns otherwise.
RunWithConfig ==
    /\ proc[1].pc = "runPipeline"
    /\ LET read    == settingsRead(config)
           missing == {i \in 1..Len(read) : read[i].setting \notin config}
           first   == CHOOSE i \in missing : \A j \in missing : i <= j
       IN  IF missing = {}
           THEN proc' = [proc EXCEPT ![1].pc = "returned", ![1].runRow = TRUE,
                                     ![1].blogArticle = "DRY_RUN" \notin config]
           ELSE proc' = [proc EXCEPT ![1].pc = "rejected", ![1].runRow = TRUE,
                                     ![1].blogArticle = read[first].afterBlog,
                                     ![1].missing = read[first].setting]
    /\ UNCHANGED <<config, limit, ledger, faults>>

ConfigNext == LoadConfig \/ RunWithConfig

ConfigSpec == ConfigInit /\ [][ConfigNext]_vars

-----------------------------------------------------------------------------
(* The blog access-token cache of src/unnamed/part_002: the module variable *)
(* `cached` (<< >> for null) shared by the calls of getShopifyAccessToken,  *)
(* two of which may overlap.  Times are in milliseconds; a fetched token is *)
(* named by the time of its arrival.                                        *)

\* Line 84: the skew.
TOKEN_SKEW_MS == 60000
\* Line 89: expires_in when the response has none, in seconds.
DEFAULT_EXPIRES_IN == 86400

\* Faulty variant of CachedIsValid: no skew.
CachedIsValidWithoutSkew(cached, at) ==
    cached # << >> /\ cached[1].expiresAt > at

\* Line 84: cached && cached.expiresAt > now + 60_000.
CachedIsValid(cached, at) ==
    cached # << >> /\ cached[1].expiresAt > at + TOKEN_SKEW_MS

TokenInit ==
    /\ \E static \in {"", "shpat_static"} :
          config = [DRY_RUN |-> FALSE, ALLOW_TOPIC_REUSE |-> FALSE,
                    BOXNCASE_MCP_URL |-> TRUE, GETLATE_API_KEY |-> TRUE,
                    TEMPLATED |-> TRUE, TEMPLATED_PAGE_COUNT |-> TRUE,
                    SHOPIFY_ACCESS_TOKEN |-> static]
    /\ proc = [cached |-> << >>,
               call   |-> [p \in Procs |->
                             [pc |-> "idle", at |-> 0, token |-> "", fetched |-> FALSE]]]
    /\ runs = <<>>
    /\ topics = <<>>
    /\ posts = <<>>
    /\ assets = <<>>
    /\ pins = <<>>
    /\ logs = {}
    /\ now = 0
    /\ faults = 0
    /\ limit = 1

\* Lines 80-88: the static token, or the cached one while it is valid, or
\* the start of a fetch, with now read before it.
CallGetShopifyAccessToken(p) ==
    /\ proc.call[p].pc = "idle"
    /\ proc' = [proc EXCEPT !.call[p] =
          IF config.SHOPIFY_ACCESS_TOKEN # ""
          THEN [pc |-> "returned", at |-> now, token |-> config.SHOPIFY_ACCESS_TOKEN,
                fetched |-> FALSE]
          ELSE IF CachedIsValid(proc.cached, now)
          THEN [pc |-> "returned", at |-> now, token |-> proc.cached[1].token,
                fetched |-> FALSE]
          ELSE [pc |-> "fetching", at |-> now, token |-> "", fetched |-> FALSE]]
    /\ UNCHANGED <<config, limit, ledger, faults>>

\* Lines 88-94: the fetch settles.  On a response the cache is overwritten
\* with the token and now + expiresIn * 1000, now being the time read before
\* the fetch; a throw of fetchTokenWithClientCredentials leaves line 88.
FetchTokenSettles(p) ==
    /\ proc.call[p].pc = "fetching"
    /\ \/ /\ Works
          /\ \E expires_in \in {-1, 0, 60, 90, 120} :
                LET expiresIn == IF expires_in = -1 THEN DEFAULT_EXPIRES_IN ELSE expires_in
                    token     == "shpat_" \o ToString(now)
                IN  proc' = [proc EXCEPT
                        !.cached = << [token |-> token,
                                       expiresAt |-> proc.call[p].at + expiresIn * 1000] >>,
                        !.call[p] = [@ EXCEPT !.pc = "returned", !.token = token,
                                              !.fetched = TRUE]]
       \/ /\ Fails
          /\ proc' = [proc EXCEPT !.call[p].pc = "rejected"]
    /\ UNCHANGED <<config, limit, runs, topics, posts, assets, pins, logs, now>>

\* The caller goes on; its next run calls again.
TokenCallEnds(p) ==
    /\ proc.call[p].pc \in {"returned", "rejected"}
    /\ proc' = [proc EXCEPT !.call[p] =
                    [pc |-> "idle", at |-> 0, token |-> "", fetched |-> FALSE]]
    /\ UNCHANGED <<config, limit, ledger, faults>>

\* Date.now() advances.
Tick ==
    /\ now < MaxTicks * 30000
    /\ now' = now + 30000
    /\ UNCHANGED <<config, limit, proc, runs, topics, posts, assets, pins, logs, faults>>

TokenNext ==
    \/ \E p \in Procs : \/ CallGetShopifyAccessToken(p)
                         \/ FetchTokenSettles(p)
                         \/ TokenCallEnds(p)
    \/ Tick

TokenSpec == TokenInit /\ [][TokenNext]_vars

-----------------------------------------------------------------------------
(* The walk over the candidates, lines 239-276, of a run that has fetched   *)
(* more relevant trend items than MAX_TOPIC_CANDIDATES: the run is taken up *)
(* at the scoring, with no context configured and a Ledger that answers.    *)

\* Relevant trend items "bulk0", "bulk1", ...: the later in the list, the
\* higher the score.
WalkTrend(i) ==
    [keyword |-> KwBulk \o <<ToString(i - 1)>>, score |-> i]

WalkInit ==
    /\ \E reuse \in BOOLEAN :
          config = [DRY_RUN |-> FALSE, ALLOW_TOPIC_REUSE |-> reuse,
                    BOXNCASE_MCP_URL |-> FALSE, GETLATE_API_KEY |-> TRUE,
                    TEMPLATED |-> TRUE, TEMPLATED_PAGE_COUNT |-> TRUE]
    /\ \E trends \in { << >>, <<TrendPie>>, <<WalkTrend(1), TrendPie>>,
                        [i \in 1..(MAX_TOPIC_CANDIDATES + 1) |-> WalkTrend(i)]
                            \o <<TrendPie>> } :
          proc = [p \in Procs |->
                    IF p = 1
                    THEN [InitProc EXCEPT !.pc = "score", !.runId = 1,
                                          !.trends = trends, !.calls = <<"trends">>]
                    ELSE InitProc]
    /\ \E held \in {0, 1, MAX_TOPIC_CANDIDATES - 1, MAX_TOPIC_CANDIDATES} :
          \E pie \in BOOLEAN :
              topics = [k \in 1..held |->
                           PriorTopic(WalkTrend(MAX_TOPIC_CANDIDATES + 2 - k).keyword,
                                      IF k % 2 = 0 THEN "selected" ELSE "used")]
                       \o (IF pie THEN <<PriorTopic(KwPie, "used")>> ELSE << >>)
    /\ runs = <<[status |-> "running", error_summary |-> "", started_at |-> 1,
                 finished_at |-> 0]>>
    /\ posts = <<>>
    /\ assets = <<>>
    /\ pins = <<>>
    /\ logs = {[run_id |-> 1, step |-> "orchestrator", level |-> "info",
                message |-> "Pipeline started", n |-> 1],
               [run_id |-> 1, step |-> "topic_discovery", level |-> "info",
                message |-> "Fetched trend items", n |-> 2]}
    /\ now = 1
    /\ faults = 0
    /\ limit = 0

WalkNext ==
    \/ Score(1)
    \/ CheckTopicUsed(1)
    \/ FinalizeAllUsed(1)
    \/ FinalizeNoTopic(1)

WalkSpec == WalkInit /\ [][WalkNext]_vars

-----------------------------------------------------------------------------
(* The Topic Selector on its own: scoreAndSelectTopicCandidates applied to  *)
(* a trend list and a context keyword list.                                 *)

SelectorInit ==
    /\ config = [DRY_RUN |-> TRUE, ALLOW_TOPIC_REUSE |-> FALSE,
                 BOXNCASE_MCP_URL |-> TRUE, GETLATE_API_KEY |-> FALSE,
                 TEMPLATED |-> FALSE, TEMPLATED_PAGE_COUNT |-> FALSE]
    /\ \E trends \in SelectorTrendLists, contextKeywords \in SelectorContextLists :
          proc = [p \in Procs |->
                     IF p = 1
                     THEN [InitProc EXCEPT !.pc = "select", !.trends = trends,
                                           !.contextKeywords = contextKeywords]
                     ELSE InitProc]
    /\ runs = <<>>
    /\ topics = <<>>
    /\ posts = <<>>
    /\ assets = <<>>
    /\ pins = <<>>
    /\ logs = {}
    /\ now = 1
    /\ faults = 0
    /\ limit = 0

\* Line 239: the call of scoreAndSelectTopicCandidates.
SelectTopics ==
    /\ proc[1].pc = "select"
    /\ proc' = [proc EXCEPT
                   ![1].candidates = scoreAndSelectTopicCandidates(proc[1].trends,
                                                                   proc[1].contextKeywords),
                   ![1].pc = "selectDone"]
    /\ UNCHANGED <<config, limit, ledger, faults>>

SelectorNext == SelectTopics

SelectorSpec == SelectorInit /\ [][SelectorNext]_vars

-----------------------------------------------------------------------------
(* The trend sources: what each adapter makes of the top and rising rows    *)
(* it is sent, followed by the selector.                                    *)

\* String.prototype.trim, for the space character.
RECURSIVE TrimStart(_)
TrimStart(s) == IF s # <<>> /\ Head(s) = " " THEN TrimStart(Tail(s)) ELSE s

RECURSIVE TrimEnd(_)
TrimEnd(s) ==
    IF s # <<>> /\ s[Len(s)] = " " THEN TrimEnd(SubSeq(s, 1, Len(s) - 1)) ELSE s

trim(s) == TrimEnd(TrimStart(s))

\* The keys of a Map or Set filled with the elements of seq, in insertion
\* order: strict equality of strings, first occurrence keeps its place.
RECURSIVE InsertionOrder(_)
InsertionOrder(seq) ==
    IF seq = <<>> THEN <<>>
    ELSE LET before == InsertionOrder(SubSeq(seq, 1, Len(seq) - 1))
             x      == seq[Len(seq)]
         IN  IF \E i \in 1..Len(before) : before[i] = x THEN before ELSE Append(before, x)

Terms(rows) == [i \in 1..Len(rows) |-> rows[i].term]

\* topByTerm.get(term): Map.set overwrites, the last row of a term wins.
TopScore(topRows, term) ==
    LET last == CHOOSE i \in 1..Len(topRows) :
                    /\ topRows[i].term = term
                    /\ \A j \in (i + 1)..Len(topRows) : topRows[j].term # term
    IN  topRows[last].score

\* fetchTrendsFromBigQuery, lines 69-102: top terms carry their score and
\* whether the rising set has the same string; rising terms the Map does not
\* have follow with score 0.
fetchTrendsFromBigQuery(topRows, risingRows) ==
    LET topTerms    == InsertionOrder(SelectSeq(Terms(topRows), LAMBDA t : t # <<>>))
        risingTerms == InsertionOrder(SelectSeq(Terms(risingRows), LAMBDA t : t # <<>>))
        isTop(t)    == \E i \in 1..Len(topTerms) : topTerms[i] = t
        isRising(t) == \E i \in 1..Len(risingTerms) : risingTerms[i] = t
        onlyRising  == SelectSeq(risingTerms, LAMBDA t : ~isTop(t))
    IN  [i \in 1..Len(topTerms) |->
            [keyword |-> topTerms[i], score |-> TopScore(topRows, topTerms[i]),
             rising |-> isRising(topTerms[i])]]
        \o [i \in 1..Len(onlyRising) |->
               [keyword |-> onlyRising[i], score |-> 0, rising |-> TRUE]]

\* The push closure of lines 67-72 applied to rows in order: a query whose
\* trimmed lowercase form was seen is skipped.
RECURSIVE PushAll(_, _, _)
PushAll(items, rows, rising) ==
    IF rows = <<>> THEN items
    ELSE LET query == trim(Head(rows).term)
             k     == toLowerCase(query)
             seen  == {toLowerCase(items[i].keyword) : i \in 1..Len(items)}
         IN  IF k = <<>> \/ k \in seen
             THEN PushAll(items, Tail(rows), rising)
             ELSE PushAll(Append(items, [keyword |-> query, score |-> Head(rows).score,
                                         rising |-> rising]),
                          Tail(rows), rising)

\* fetchFoodDrinkTrendsFromSearchApi, lines 64-83: the top rows, then the
\* rising rows.
fetchFoodDrinkTrendsFromSearchApi(topRows, risingRows) ==
    PushAll(PushAll(<<>>, topRows, FALSE), risingRows, TRUE)

\* fetchTrendingKeywords: the items of the response as they came.  The
\* response is enumerated as the top rows followed by the rising rows.
fetchTrendingKeywords(topRows, risingRows) ==
    [i \in 1..Len(topRows) |-> [keyword |-> topRows[i].term, score |-> topRows[i].score]]
    \o [i \in 1..Len(risingRows) |->
           [keyword |-> risingRows[i].term, score |-> risingRows[i].score, rising |-> TRUE]]

\* Lines 198-223: the adapter GOOGLE_TRENDS_SOURCE names.
TrendsFromSource(source, topRows, risingRows) ==
    CASE source = "bigquery"       -> fetchTrendsFromBigQuery(topRows, risingRows)
      [] source = "searchapi_food" -> fetchFoodDrinkTrendsFromSearchApi(topRows, risingRows)
      [] OTHER                     -> fetchTrendingKeywords(topRows, risingRows)

GOOGLE_TRENDS_SOURCES == {"bigquery", "mcp", "searchapi_food"}

KwBulkLower  == <<"b","u","l","k">>
KwB2bPadded  == <<"b","2","b"," ">>

\* The rows a trend service may send.
SourceRows ==
    { [term |-> KwBulk, score |-> 5], [term |-> KwBulkLower, score |-> 7],
      [term |-> KwB2b, score |-> 5], [term |-> KwB2bPadded, score |-> 5] }

SourceRowLists == UNION { [1..n -> SourceRows] : n \in 0..MaxRows }

SourceInit ==
    /\ \E source \in GOOGLE_TRENDS_SOURCES :
          config = [DRY_RUN |-> TRUE, ALLOW_TOPIC_REUSE |-> FALSE,
                    BOXNCASE_MCP_URL |-> FALSE, GETLATE_API_KEY |-> FALSE,
                    TEMPLATED |-> FALSE, TEMPLATED_PAGE_COUNT |-> FALSE,
                    GOOGLE_TRENDS_SOURCE |-> source]
    /\ proc = [p \in Procs |->
                  IF p = 1 THEN [InitProc EXCEPT !.pc = "fetchSource"] ELSE InitProc]
    /\ runs = <<>>
    /\ topics = <<>>
    /\ posts = <<>>
    /\ assets = <<>>
    /\ pins = <<>>
    /\ logs = {}
    /\ now = 1
    /\ faults = 0
    /\ limit = 0

\* Lines 198-223 with the adapter spelled out: the service answers with some
\* top and rising rows.
FetchFromSource ==
    /\ proc[1].pc = "fetchSource"
    /\ \E topRows \in SourceRowLists, risingRows \in SourceRowLists :
          proc' = [proc EXCEPT
                      ![1].trends = TrendsFromSource(config.GOOGLE_TRENDS_SOURCE,
                                                     topRows, risingRows),
                      ![1].pc = "select"]
    /\ UNCHANGED <<config, limit, ledger, faults>>

SourceNext == FetchFromSource \/ SelectTopics

SourceSpec == SourceInit /\ [][SourceNext]_vars

-----------------------------------------------------------------------------
(* Properties.                                                              *)

Range(s) == {s[i] : i \in 1..Len(s)}

\* The Post rows and the Pin rows made for Topics of one primary_keyword.
PostsFor(kw) == {i \in 1..Len(posts) : topics[posts[i].topic_id].primary_keyword = kw}
PinsFor(kw) ==
    {i \in 1..Len(pins) : topics[posts[pins[i].post_id].topic_id].primary_keyword = kw}

\* C1: with the reuse override disabled, whatever runs there were and however
\* they overlapped, at most one Post row and at most one Pin row exist for
\* the Topics of any one primary_keyword.
C1_OneCyclePerKeyword ==
    ~config.ALLOW_TOPIC_REUSE =>
        \A i \in 1..Len(topics) :
            /\ Cardinality(PostsFor(topics[i].primary_keyword)) <= 1
            /\ Cardinality(PinsFor(topics[i].primary_keyword)) <= 1

\* Two runs were handed the same candidates, the first published its pin, and
\* the second skipped that keyword and published a pin for the next one.
C1_Witness ==
    /\ ~config.ALLOW_TOPIC_REUSE
    /\ Len(pins) = 2
    /\ \E p, q \in Procs :
          /\ p # q
          /\ proc[p].candidates = proc[q].candidates
          /\ proc[p].idx = 1 /\ proc[q].idx = 2
          /\ proc[p].pc = "returned" /\ proc[q].pc = "returned"

\* C2: no two Topic rows have the same primary_keyword, in any reachable
\* Ledger state, overlapping runs included.
C2_TopicKeywordUnique ==
    \A i, j \in 1..Len(topics) :
        topics[i].primary_keyword = topics[j].primary_keyword => i = j

\* Two overlapping runs both had isTopicUsed answer "unused" for one keyword;
\* one committed it and the insert of the other was rejected.
C2_Witness ==
    /\ ~config.ALLOW_TOPIC_REUSE
    /\ \E p, q \in Procs :
          /\ proc[p].err = DuplicateTopicError
          /\ proc[q].topicId # 0
          /\ topics[proc[q].topicId].primary_keyword = proc[p].selected[1].primary

\* Run p selected a keyword, is past its insert, and the Topic row of that
\* keyword is the one another run committed.
Loser(p) ==
    /\ ~config.ALLOW_TOPIC_REUSE
    /\ proc[p].selected # <<>>
    /\ proc[p].pc \notin {"isTopicUsed", "createTopic"}
    /\ \E q \in Procs \ {p} :
          /\ proc[q].topicId # 0
          /\ topics[proc[q].topicId].primary_keyword = proc[p].selected[1].primary

\* The adapters of the content, blog, image and social steps.
PublishingAdapters ==
    {"content", "blog_publish", "image_generate", "image_edit", "image_recreate",
     "upload", "rehost", "template_render", "social_getlate", "social_pinterest"}

LoserState(p) ==
    /\ Cardinality({i \in 1..Len(topics) :
                       topics[i].primary_keyword = proc[p].selected[1].primary}) = 1
    /\ proc[p].topicId = 0
    /\ proc[p].err # ""
    /\ Range(proc[p].calls) \cap PublishingAdapters = {}
    /\ proc[p].postId = 0 /\ proc[p].assetId = 0
    /\ proc[p].pc = "rejected" =>
          \/ /\ runs[proc[p].runId].status = "failed"
             /\ runs[proc[p].runId].error_summary = proc[p].err
             /\ runs[proc[p].runId].finished_at # 0
          \/ /\ proc[p].swallowed
             /\ runs[proc[p].runId].status = "running"

\* C3 (amended): when two overlapping runs, reuse override disabled, both pass
\* the is-topic-used check for one keyword, exactly one Topic row of the
\* keyword is committed; the insert of the other run is rejected, that run
\* calls no content, blog, image or social adapter, writes no Topic, Post,
\* Asset or Pin row, and rejects; its Run is failed with the insert error as
\* error_summary when the finalize-failed update succeeds, and is left
\* running when that update fails, because its failure is swallowed.
C3_LoserFailsCleanly ==
    [][\A p \in Procs :
          /\ Loser(p)' => LoserState(p)'
          /\ (Loser(p) /\ proc'[p] # proc[p]) =>
                UNCHANGED <<topics, posts, assets, pins>>]_vars

\* The run that lost the race has rejected with its Run failed.
C3_Witness ==
    \E p \in Procs :
        /\ Loser(p)
        /\ proc[p].err = DuplicateTopicError
        /\ proc[p].pc = "rejected"
        /\ runs[proc[p].runId].status = "failed"

\* C3 as stated: the run whose insert was rejected is finalized failed.
C3_AsStated ==
    \A p \in Procs :
        (Loser(p) /\ proc[p].pc = "rejected") => runs[proc[p].runId].status = "failed"

C5_AsStated ==
    [][\A i \in 1..Len(runs) : runs[i].finished_at # 0 => runs'[i] = runs[i]]_vars

\* The error a run threw first: the one caught by the handler, or the one
\* that left runPipeline before the try block.
Thrown(p) == IF proc[p].err # "" THEN proc[p].err ELSE proc[p].raised

\* C6 as stated: a run that threw after its Run row was created has rejected
\* with the Run failed, finished_at set and the error's message as
\* error_summary.
C6_AsStated ==
    \A p \in Procs :
        (proc[p].pc = "rejected" /\ proc[p].runId # 0) =>
            /\ runs[proc[p].runId].status = "failed"
            /\ runs[proc[p].runId].finished_at # 0
            /\ runs[proc[p].runId].error_summary = Thrown(p)

\* C7 as stated: the error runPipeline rejects with after a step failed is the
\* error of that step, whatever happens to the failure-recording writes.
C7_AsStated ==
    \A p \in Procs :
        (proc[p].pc = "rejected" /\ proc[p].err # "") => proc[p].raised = proc[p].err

\* C8 as stated: a failed insert of a log row never aborts a run: no run
\* throws the insert's error, into the handler or to the caller.
C8_AsStated ==
    \A p \in Procs :
        /\ proc[p].err # LogInsertError
        /\ proc[p].raised # LogInsertError

\* C9 as stated, on finished runs: a run that has returned or rejected takes
\* no further step, so the Run row it created must by then be terminal.
C9_AsStated ==
    \A p \in Procs :
        (proc[p].pc \in Settled /\ proc[p].runId # 0) =>
            /\ runs[proc[p].runId].status \in {"success", "failed"}
            /\ runs[proc[p].runId].finished_at # 0

\* Run p generated content: the log row written right after is there.
GeneratedContent(p) ==
    \E l \in logs : l.run_id = proc[p].runId /\ l.step = "content_generation"

\* C10 (amended): in dry-run mode a run calls no adapter but the trend, context
\* and content ones and no Post, Asset or Pin row is created; a run that
\* returns after generating content has marked its Topic used and finalized
\* its Run success, which takes the mark-used update, the finalize update and
\* the final log insert to succeed.
C10_DryRunSkipsPublishing ==
    config.DRY_RUN =>
        /\ posts = <<>> /\ assets = <<>> /\ pins = <<>>
        /\ \A p \in Procs :
              /\ Range(proc[p].calls) \subseteq {"trends", "context", "content"}
              /\ (proc[p].pc = "returned" /\ GeneratedContent(p)) =>
                    /\ proc[p].topicId # 0
                    /\ topics[proc[p].topicId].status = "used"
                    /\ runs[proc[p].runId].status = "success"
                    /\ runs[proc[p].runId].finished_at # 0

\* A dry run selected a topic, generated content and returned.
C10_Witness ==
    /\ config.DRY_RUN
    /\ \E p \in Procs :
          /\ proc[p].pc = "returned"
          /\ GeneratedContent(p)
          /\ "content" \in Range(proc[p].calls)
          /\ topics[proc[p].topicId].status = "used"
          /\ runs[proc[p].runId].status = "success"

\* C10 as stated: every dry run that generated content ends with its Topic
\* used and its Run success.
C10_AsStated ==
    config.DRY_RUN =>
        \A p \in Procs :
            (proc[p].pc \in Settled /\ GeneratedContent(p)) =>
                /\ topics[proc[p].topicId].status = "used"
                /\ runs[proc[p].runId].status = "success"

\* C11 as stated: in a non-dry-run behaviour in which no adapter call and no
\* Ledger statement fails, a run that committed or reused a Topic ends with
\* one Post, one Asset and one Pin row of its own, the Topic used and the Run
\* success.
C11_AsStated ==
    (~config.DRY_RUN /\ faults = 0) =>
        \A p \in Procs :
            (proc[p].pc \in Settled /\ proc[p].topicId # 0) =>
                /\ proc[p].postId # 0
                /\ proc[p].assetId # 0
                /\ Cardinality({k \in 1..Len(pins) : pins[k].post_id = proc[p].postId}) = 1
                /\ topics[proc[p].topicId].status = "used"
                /\ runs[proc[p].runId].status = "success"

\* Topic i has a Pin whose Post belongs to it and whose Asset exists.
HasPin(i) ==
    \E k \in 1..Len(pins) :
        /\ pins[k].post_id \in 1..Len(posts)
        /\ posts[pins[k].post_id].topic_id = i
        /\ pins[k].image_asset_id \in 1..Len(assets)

\* C12: in non-dry-run mode every Topic in status used has a Pin row whose
\* Post row belongs to that Topic and whose Asset row exists, and the step
\* that marks a Topic used is taken by a run whose own Post, Asset and Pin
\* rows are already in the Ledger.
C12_UsedOnlyAfterPin ==
    [][~config.DRY_RUN =>
          /\ \A i \in 1..Len(topics') : topics'[i].status = "used" => HasPin(i)'
          /\ \A p \in Procs :
                (proc[p].topicId # 0 /\ proc'[p] # proc[p]
                   /\ topics'[proc[p].topicId].status # topics[proc[p].topicId].status) =>
                    /\ proc[p].postId \in 1..Len(posts)
                    /\ posts[proc[p].postId].topic_id = proc[p].topicId
                    /\ proc[p].assetId \in 1..Len(assets)
                    /\ \E k \in 1..Len(pins) :
                          /\ pins[k].post_id = proc[p].postId
                          /\ pins[k].image_asset_id = proc[p].assetId]_vars

\* A non-dry run has persisted its Pin and marked its Topic used.
C12_Witness ==
    /\ ~config.DRY_RUN
    /\ \E p \in Procs :
          /\ proc[p].topicId # 0
          /\ topics[proc[p].topicId].status = "used"
          /\ HasPin(proc[p].topicId)
          /\ proc[p].pc = "returned"

\* Run p walked all its candidates and found each of them selected or used:
\* the skip notice of every candidate is in its log.
SkippedAll(p) ==
    /\ proc[p].candidates # <<>>
    /\ \A j \in 1..Len(proc[p].candidates) :
          \E l \in logs :
              /\ l.run_id = proc[p].runId
              /\ l.message = "Topic already used, skipping: "
                                 \o Display(proc[p].candidates[j].primary)

SkippedAllState(p) ==
    /\ proc[p].selected = <<>>
    /\ proc[p].topicId = 0
    /\ Range(proc[p].calls) \subseteq {"trends", "context"}
    /\ proc[p].postId = 0 /\ proc[p].assetId = 0
    /\ proc[p].pc = "returned" =>
          /\ runs[proc[p].runId].status = "failed"
          /\ runs[proc[p].runId].error_summary = "All candidate topics already used"
          /\ runs[proc[p].runId].finished_at # 0

FilterKeepsNothing(trends, contextKeywords) ==
    /\ trends # <<>>
    /\ \A i \in 1..Len(trends) : ~RelevantTrend(trends[i], contextKeywords)

\* C14: when the trend list is non-empty and the filter keeps nothing, the
\* scoring step makes every trend item a candidate, in input order, and sends
\* the run on to select among them; the scoring step takes the no-candidate
\* exit only when the trend list is empty, and only a run with an empty trend
\* list has its Run failed for "No topic selected after scoring".
C14_FallbackToAllTrends ==
    [][\A p \in Procs :
          /\ (proc[p].pc = "score" /\ proc'[p].pc \notin {"score", "catch"}) =>
                /\ FilterKeepsNothing(proc[p].trends, proc[p].contextKeywords) =>
                      /\ Len(proc'[p].candidates) = Len(proc[p].trends)
                      /\ \A i \in 1..Len(proc[p].trends) :
                            proc'[p].candidates[i].primary = proc[p].trends[i].keyword
                      /\ proc'[p].pc \in {"isTopicUsed", "getTopicIdByKeyword"}
                /\ proc'[p].pc = "finalize_no_topic" <=> proc[p].trends = <<>>
          /\ (proc[p].runId # 0
                /\ runs'[proc[p].runId].error_summary = "No topic selected after scoring") =>
                proc[p].trends = <<>>]_vars

\* A run whose only trend item matched nothing committed it as its Topic.
C14_Witness ==
    \E p \in Procs :
        /\ FilterKeepsNothing(proc[p].trends, proc[p].contextKeywords)
        /\ proc[p].topicId # 0
        /\ topics[proc[p].topicId].primary_keyword = proc[p].trends[1].keyword
        /\ \E l \in logs :
              /\ l.run_id = proc[p].runId
              /\ l.message = "No industry match; using all trends as fallback for this run"

\* The adapters of the pin-creative step and the social posters.
PinCreativeAdapters ==
    {"image_generate", "image_edit", "upload", "template_render", "image_recreate", "rehost"}
SocialAdapters == {"social_getlate", "social_pinterest"}

\* In the calls of run p, every call to an adapter of `first` precedes every
\* call to an adapter of `then`.
Precede(p, first, then) ==
    \A i, j \in 1..Len(proc[p].calls) :
        (proc[p].calls[i] \in then /\ proc[p].calls[j] \in first) => j < i

SocialCalls(p) == {i \in 1..Len(proc[p].calls) : proc[p].calls[i] \in SocialAdapters}

\* C16 as stated: a non-dry run that got as far as the social-post step, in a
\* behaviour where no call fails, has called exactly one social poster: the
\* aggregator's when it is configured, a direct poster otherwise.
C16_AsStated ==
    (~config.DRY_RUN /\ faults = 0) =>
        \A p \in Procs :
            (proc[p].pc \in Settled /\ proc[p].postId # 0) =>
                /\ Cardinality(SocialCalls(p)) = 1
                /\ \A i \in SocialCalls(p) :
                      proc[p].calls[i] = IF config.GETLATE_API_KEY
                                         THEN "social_getlate" ELSE "social_pinterest"

\* Run p made the calls d[1], ..., d[n] one right after the other.
CalledInARow(p, d) ==
    \E i \in 0..(Len(proc[p].calls) - Len(d)) :
        SubSeq(proc[p].calls, i + 1, i + Len(d)) = d

\* The local-template edit failed, the raw image was generated and uploaded,
\* the template render failed and the run went on to the blog: after a
\* successful edit the next call is an upload, after a successful render it
\* is the recreate call.
FallbackChain(p) ==
    CalledInARow(p, <<"image_edit", "image_generate", "upload", "template_render",
                       "blog_publish">>)

\* The warn-level entries of the pin-creative step in the log of run p.
PinCreativeWarns(p) ==
    {l \in logs : l.run_id = proc[p].runId /\ l.step = "pin_creative" /\ l.level = "warn"}

LaterPinCreativeAdapters == {"template_render", "image_recreate", "rehost", "upload"}

\* The last adapter call of run p is one of those sub-steps.
InLaterSubStep(p) ==
    /\ \E i \in DOMAIN proc[p].calls : proc[p].calls[i] = "template_render"
    /\ proc[p].calls[Len(proc[p].calls)] \in LaterPinCreativeAdapters

\* C18 as stated: once run p holds a usable image URL, a failed call of a
\* later pin-creative sub-step (render, recreate, re-host, upload of the
\* recreated image) is never the error that fails the run.
C18_AsStated ==
    \A p \in Procs :
        (proc[p].imageUrlForBlog # "" /\ InLaterSubStep(p)) => proc[p].err # AdapterError

\* The primaries of a candidate list, in order.
Primaries(candidates) == [i \in 1..Len(candidates) |-> candidates[i].primary]

\* The selector has returned for the inputs held by run 1.
Selected == proc[1].pc = "selectDone"

\* kw contains some element of terms / is contained in some element of terms.
ContainsSome(kw, terms) == \E i \in 1..Len(terms) : includes(kw, terms[i])
ContainedInSome(kw, terms) == \E i \in 1..Len(terms) : includes(terms[i], kw)

\* The trend item is among the returned primaries.
KeptItem(t) == \E i \in 1..Len(proc[1].candidates) : proc[1].candidates[i].primary = t.keyword

\* C19 (amended): the selector keeps a trend item if and only if its
\* lowercased keyword contains some industry term, or contains or is
\* contained in some context keyword; an item matching neither is discarded
\* even when rising.  A keyword that is merely contained in an industry term
\* is not kept.  (Lists of at most MAX_TOPIC_CANDIDATES items, so that every
\* kept item is returned.)
C19_KeepsRelevantItems ==
    (Selected /\ Len(proc[1].trends) <= MAX_TOPIC_CANDIDATES) =>
        \A i \in 1..Len(proc[1].trends) :
            LET t  == proc[1].trends[i]
                kw == toLowerCase(t.keyword)
            IN  KeptItem(t) <=> \/ ContainsSome(kw, INDUSTRY_KEYWORDS)
                                \/ ContainsSome(kw, proc[1].contextKeywords)
                                \/ ContainedInSome(kw, proc[1].contextKeywords)

\* A rising item matching nothing is discarded next to an item kept only
\* because a context keyword contains its keyword.
C19_Witness ==
    /\ Selected
    /\ proc[1].contextKeywords = <<KwPies>>
    /\ \E i, j \in 1..Len(proc[1].trends) :
          /\ proc[1].trends[i] = TrendSnack
          /\ proc[1].trends[j] = TrendPie
    /\ KeptItem(TrendPie)
    /\ ~KeptItem(TrendSnack)

\* C19 as stated: an item is kept if and only if its lowercased keyword
\* contains, or is contained in, some industry term or some context keyword.
C19_AsStated ==
    (Selected /\ Len(proc[1].trends) <= MAX_TOPIC_CANDIDATES) =>
        \A i \in 1..Len(proc[1].trends) :
            LET t  == proc[1].trends[i]
                kw == toLowerCase(t.keyword)
            IN  KeptItem(t) <=> \/ ContainsSome(kw, INDUSTRY_KEYWORDS)
                                \/ ContainedInSome(kw, INDUSTRY_KEYWORDS)
                                \/ ContainsSome(kw, proc[1].contextKeywords)
                                \/ ContainedInSome(kw, proc[1].contextKeywords)

\* The score the claim gives to a trend item.
StatedScore(t, contextKeywords) ==
    LET kw == toLowerCase(t.keyword)
    IN  (IF "score" \in DOMAIN t THEN t.score ELSE 0)
        + (IF "rising" \in DOMAIN t /\ t.rising THEN 20 ELSE 0)
        + (IF ContainsSome(kw, INDUSTRY_KEYWORDS) THEN 10 ELSE 0)
        + (IF ContainsSome(kw, contextKeywords) \/ ContainedInSome(kw, contextKeywords)
           THEN 10 ELSE 0)

\* The positions of the trend list that pass the filter.
KeptPositions(trends, contextKeywords) ==
    {i \in 1..Len(trends) : RelevantTrend(trends[i], contextKeywords)}

\* The place of position i in the ranking: one more than the number of kept
\* positions with a higher score, or with the same score and earlier in the
\* input.
RankOf(i, trends, contextKeywords) ==
    1 + Cardinality({j \in KeptPositions(trends, contextKeywords) :
            \/ StatedScore(trends[j], contextKeywords) > StatedScore(trends[i], contextKeywords)
            \/ /\ StatedScore(trends[j], contextKeywords) = StatedScore(trends[i], contextKeywords)
               /\ j < i})

\* C20: the primaries returned by the selector are the filtered items scored
\* (score or 0) + 20 if rising + 10 if industry match + 10 if context match,
\* in non-increasing score order with equal scores in input order, cut to the
\* first MAX_TOPIC_CANDIDATES (10).
C20_PrimariesRankedAndCapped ==
    Selected =>
        LET trends == proc[1].trends
            ctx    == proc[1].contextKeywords
            kept   == KeptPositions(trends, ctx)
            prim   == Primaries(proc[1].candidates)
        IN  /\ Len(prim) = Min(10, Cardinality(kept))
            /\ \A i \in kept :
                  RankOf(i, trends, ctx) <= 10 =>
                      prim[RankOf(i, trends, ctx)] = trends[i].keyword

\* More than ten items pass the filter, ten are returned, and two items of
\* equal score and different keywords are returned in input order, the later
\* one of the input after the earlier one.
C20_Witness ==
    /\ Selected
    /\ Cardinality(KeptPositions(proc[1].trends, proc[1].contextKeywords)) > 10
    /\ Len(proc[1].candidates) = 10
    /\ proc[1].trends[1] = TrendOffice
    /\ proc[1].trends[2] = TrendB2b
    /\ proc[1].candidates[1].primary = KwOffice
    /\ proc[1].candidates[2].primary = KwB2b

\* No element occurs twice in the sequence.
NoRepeats(seq) == \A i, j \in 1..Len(seq) : seq[i] = seq[j] => i = j

\* C21 as stated: for every candidate the selector returns, supporting holds
\* at most 5 keywords, does not contain the candidate's own primary keyword,
\* contains no keyword twice, and is the primaries of the next 5 candidates
\* after it in score order.
C21_AsStated ==
    (Selected /\ Len(proc[1].trends) <= MAX_TOPIC_CANDIDATES) =>
        LET prim == Primaries(proc[1].candidates)
        IN  \A i \in 1..Len(prim) :
                LET supporting == proc[1].candidates[i].supporting
                IN  /\ Len(supporting) <= 5
                    /\ \A k \in 1..Len(supporting) : supporting[k] # prim[i]
                    /\ NoRepeats(supporting)
                    /\ supporting = SubSeq(prim, i + 1, Min(i + 5, Len(prim)))

\* C22 as stated: whichever trend source is configured, no two entries of the
\* candidate list have keywords that are equal ignoring case.
C22_AsStated ==
    Selected =>
        \A i, j \in 1..Len(proc[1].candidates) :
            toLowerCase(proc[1].candidates[i].primary)
                = toLowerCase(proc[1].candidates[j].primary) => i = j

\* The Topic rows holding the keyword.
TopicRowsOf(keyword) == {i \in 1..Len(topics) : topics[i].primary_keyword = keyword}

\* C23: with the reuse override enabled a run never asks for a topic's
\* status, the candidate it selects is the top-ranked one, and when it looks
\* for the Topic row of that keyword and one exists, the run goes on to
\* content generation with that row's id and the topics table unchanged.
C23_ReuseTakesExistingTopic ==
    [][config.ALLOW_TOPIC_REUSE =>
        \A p \in Procs :
            /\ proc'[p].pc # "isTopicUsed"
            /\ proc'[p].selected # <<>> => proc'[p].selected = <<proc'[p].candidates[1]>>
            /\ ( /\ proc[p].pc = "getTopicIdByKeyword"
                 /\ proc'[p].pc \notin {"getTopicIdByKeyword", "catch"} )
                 => LET rows == TopicRowsOf(proc[p].selected[1].primary)
                    IN  /\ rows # {} => /\ proc'[p].topicId \in rows
                                        /\ proc'[p].pc = "generateContent"
                                        /\ topics' = topics
                        /\ rows = {} => proc'[p].pc = "createTopic"]_vars

\* A run under the override took the id of a row that was there before it
\* started, in status used, and the table still has its rows only.
C23_Witness ==
    /\ config.ALLOW_TOPIC_REUSE
    /\ Len(topics) = 2
    /\ proc[1].pc = "generateContent"
    /\ proc[1].selected = <<proc[1].candidates[1]>>
    /\ Len(proc[1].candidates) = 2
    /\ proc[1].topicId = 1
    /\ topics[1].primary_keyword = proc[1].selected[1].primary
    /\ topics[1].status = "used"

\* Run p has failed: it is in its handler or has rejected.
Failed(p) == proc[p].pc \in {"catch", "rejected"}

\* Every row of the table is still there, as it was.
RowsKept(table, tableNext) ==
    /\ Len(tableNext) >= Len(table)
    /\ \A i \in 1..Len(table) : tableNext[i] = table[i]

StartedAfterFailureOf(q, p) ==
    /\ proc[p].runId \in 1..Len(runs)
    /\ proc[q].runId \in 1..Len(runs)
    /\ runs[proc[p].runId].status = "failed"
    /\ runs[proc[q].runId].started_at > runs[proc[p].runId].finished_at

FailFastAdapters == {"trends", "context", "content", "blog_publish"} \cup SocialAdapters

\* The errors their failures are thrown as.
FailFastErrors ==
    { prefix \o AdapterError :
        prefix \in {"Google Trends failed: ", "BoxNCase MCP failed: ",
                    "OpenAI content failed: ", "Shopify publish failed: ",
                    "Getlate pin failed: ", "Pinterest post failed: "} }

\* C26 (amended): a failure of the trend, context, content-generation,
\* blog-publish or social-post adapter takes the run straight to its handler;
\* from then on the run calls no adapter and inserts no Post, Asset or Pin
\* row, and it rejects with the Run failed and the adapter's error as
\* error_summary, unless the handler's own finalize update fails, which
\* leaves the Run as it was.
C26_FailFast ==
    [][\A p \in Procs :
          /\ ( /\ Len(proc'[p].calls) > Len(proc[p].calls)
               /\ proc'[p].calls[Len(proc'[p].calls)] \in FailFastAdapters
               /\ faults' > faults
               /\ proc'[p].err # LogInsertError )
                => /\ proc'[p].pc = "catch"
                   /\ proc'[p].err \in FailFastErrors
                   /\ posts' = posts /\ assets' = assets /\ pins' = pins
          /\ (Failed(p) /\ proc[p].err \in FailFastErrors)
                => /\ proc'[p].calls = proc[p].calls
                   /\ posts' = posts /\ assets' = assets /\ pins' = pins
                   /\ proc'[p].pc = "rejected"
                   /\ ~proc'[p].swallowed =>
                         /\ runs'[proc[p].runId].status = "failed"
                         /\ runs'[proc[p].runId].error_summary = proc[p].err]_vars

\* The social post failed after the blog was published and the Post and
\* Asset rows were inserted; the run has rejected with the Run failed and no
\* Pin row.
C26_Witness ==
    \E p \in Procs :
        /\ proc[p].pc = "rejected"
        /\ proc[p].err = "Getlate pin failed: " \o AdapterError
        /\ proc[p].calls[Len(proc[p].calls)] = "social_getlate"
        /\ runs[proc[p].runId].status = "failed"
        /\ runs[proc[p].runId].error_summary = proc[p].err
        /\ Len(posts) = 1 /\ Len(assets) = 1 /\ Len(pins) = 0

\* C26 as stated: a run that rejected after a failure of one of these
\* adapters has its Run finalized failed.
C26_AsStated ==
    \A p \in Procs :
        (proc[p].pc = "rejected" /\ proc[p].err \in FailFastErrors) =>
            runs[proc[p].runId].status = "failed"

\* C27 as stated: whatever the services do, a run does not wait forever:
\* every call completes or fails, and the run returns or rejects.
C27_AsStated == <>(proc[1].pc \in Settled)

\* C28: a run holds a Ledger connection only while the handler of one
\* withClient call runs: none between operations, whether the last one
\* returned or threw, none while an adapter call is outstanding, and never
\* more than one.
C28_ConnectionPerOperation ==
    /\ proc[1].held <= 1
    /\ proc[1].held = 1 <=> proc[1].pc \in {"handler", "finally"}
    /\ proc[1].pc \in {"idle", "adapter", "connect"} => proc[1].held = 0

\* The handler of the run's first Ledger operation threw, its connection
\* was released, and an adapter call is now outstanding.
C28_Witness ==
    /\ proc[1].pc = "adapter"
    /\ proc[1].awaited = 1
    /\ proc[1].released = 1
    /\ proc[1].thrown
    /\ proc[1].held = 0

\* The configured template ids, the images of the templates directory in
\* sort order, and the picks of the runs so far.
ConfiguredIds == SelectSeq(config.TEMPLATED_TEMPLATE_IDS, LAMBDA s : s # "")
LocalImages == {f \in proc[1].dir : f.ext \in {"jpg", "jpeg", "png", "JPG", "PNG"}}
Picked == proc[1].picked
\* The k-th smallest image name is held by the image chosen for index k - 1.
PlaceOf(f) == Cardinality({g \in LocalImages : g.name < f.name})
\* The picks from position i on, count of them.
Window(i, count) == {Picked[j] : j \in i..(i + count - 1)}

\* C29: with N configured template ids, a page count N, or N local template
\* images, a run with id R gets index R mod N, and N runs with consecutive
\* ids get each of the N values exactly once; the pick depends on nothing
\* but the run id and the configuration.
C29_RotationByRunId ==
    /\ \A i \in 1..Len(Picked) :
         LET pick == Picked[i] IN
         /\ Len(ConfiguredIds) > 0 =>
              pick.templated.templateId = ConfiguredIds[(pick.runId % Len(ConfiguredIds)) + 1]
         /\ (config.TEMPLATED_PAGE_COUNT.kind = "int" /\ config.TEMPLATED_PAGE_COUNT.n > 0) =>
              pick.templated.pageIndex = <<pick.runId % config.TEMPLATED_PAGE_COUNT.n>>
         /\ (LocalImages # {} /\ ~pick.unreadable) =>
              /\ Len(pick.local) = 1
              /\ pick.local[1] \in LocalImages
              /\ PlaceOf(pick.local[1]) = pick.runId % Cardinality(LocalImages)
    /\ \A i \in 1..Len(Picked) :
         /\ (Len(ConfiguredIds) > 0 /\ i + Len(ConfiguredIds) - 1 <= Len(Picked)) =>
              {pick.templated.templateId : pick \in Window(i, Len(ConfiguredIds))}
                  = {ConfiguredIds[k] : k \in 1..Len(ConfiguredIds)}
         /\ (config.TEMPLATED_PAGE_COUNT.kind = "int" /\ config.TEMPLATED_PAGE_COUNT.n > 0
               /\ i + config.TEMPLATED_PAGE_COUNT.n - 1 <= Len(Picked)) =>
              {pick.templated.pageIndex[1] : pick \in Window(i, config.TEMPLATED_PAGE_COUNT.n)}
                  = 0..(config.TEMPLATED_PAGE_COUNT.n - 1)
         /\ (LocalImages # {} /\ i + Cardinality(LocalImages) - 1 <= Len(Picked)
               /\ \A pick \in Window(i, Cardinality(LocalImages)) : ~pick.unreadable) =>
              {pick.local[1] : pick \in Window(i, Cardinality(LocalImages))} = LocalImages

\* Three template ids, three pages and three local images, and six runs
\* with consecutive ids have picked: each value twice.
C29_Witness ==
    /\ Len(ConfiguredIds) = 3
    /\ config.TEMPLATED_PAGE_COUNT = [kind |-> "int", n |-> 3]
    /\ Cardinality(LocalImages) = 3
    /\ Len(Picked) = 6
    /\ \A i \in 1..6 : ~Picked[i].unreadable
    /\ Picked[1].templated.templateId = Picked[4].templated.templateId
    /\ Picked[1].local = Picked[4].local

\* Two words are the same word but for case.
SameWord(a, b) == toLowerCase(a) = toLowerCase(b)
\* The headline has two neighbouring words that are the same but for case.
HasRepeat(headline) ==
    \E i \in 2..Len(headline) : SameWord(headline[i], headline[i - 1])
\* b is a with words left out, in order.
CollapsesTo(a, b) ==
    \E keep \in SUBSET (1..Len(a)) :
        /\ Cardinality(keep) = Len(b)
        /\ \A i \in 1..Len(b) :
             \E k \in keep : /\ Cardinality({j \in keep : j <= k}) = i
                             /\ a[k] = b[i]
        /\ \A k \in (1..Len(a)) \ keep : k > 1 /\ SameWord(a[k], a[k - 1])

\* C30: the sanitized headline has no immediately repeated word (compared
\* without case) and is the generated one with only repeats left out;
\* sanitizing it again changes nothing, a headline without repeats is
\* returned unchanged, and every later step reads the sanitized headline.
C30_SanitizedHeadline ==
    proc[1].pc = "sanitized" =>
        /\ ~HasRepeat(proc[1].headline)
        /\ CollapsesTo(proc[1].generated, proc[1].headline)
        /\ sanitizeHeadline(proc[1].headline) = proc[1].headline
        /\ ~HasRepeat(proc[1].generated) => proc[1].headline = proc[1].generated
        /\ \A r \in proc[1].read : r.headline = sanitizeHeadline(proc[1].generated)

\* "Best best BEST Pie" was generated, "Best Pie" is the headline, and the
\* Pin row and the poster have read it.
C30_Witness ==
    /\ proc[1].pc = "sanitized"
    /\ proc[1].generated = <<WordBest, WordBestLower, WordBestUpper, WordPie>>
    /\ proc[1].headline = <<WordBest, WordPie>>
    /\ {r.reader : r \in proc[1].read} = {"postPin", "createPin"}

\* C31 as stated: a pin-creative sub-step failure that is caught and
\* survived is logged at level warn, never at level error: the log of the
\* pin-creative step holds no entry of level error.
C31_AsStated ==
    \A l \in logs : l.step = "pin_creative" => l.level # "error"

\* The template render of run p succeeded, its recreate/clean call failed and
\* the run went on to re-host the render: the re-host is called only with
\* improvedImage still null.
RecreateFellBack(p) ==
    CalledInARow(p, <<"template_render", "image_recreate", "rehost">>)

\* The re-host of run p failed and the run logged it.
RehostFailed(p) ==
    \E l \in logs : /\ l.run_id = proc[p].runId
                    /\ l.message = "Re-upload Templated to Getlate failed, using Templated URL"

\* The image run p uses after the fallback.
RenderedImage(p) == IF RehostFailed(p) THEN RenderUrl ELSE RehostedUrl

\* C32: when the template render succeeds and the recreate/clean call fails,
\* neither that failure nor a failure of the re-host ends the run; the image
\* of the blog article and of the social post is the re-hosted copy of the
\* render if the re-host succeeded and the render URL otherwise, and the
\* Asset row is a templated image stored at that URL.
C32_FallsBackToRenderedImage ==
    \A p \in Procs :
        RecreateFellBack(p) =>
            /\ proc[p].usedTemplatedForImage
            /\ proc[p].err \notin {AdapterError, "Gemini image failed: " \o AdapterError}
            /\ (\E i \in DOMAIN proc[p].calls : proc[p].calls[i] = "blog_publish")
                   => proc[p].blogImageUrl = RenderedImage(p)
            /\ SocialCalls(p) # {} => proc[p].pinImage = RenderedImage(p)
            /\ proc[p].assetId # 0 =>
                   assets[proc[p].assetId] = [type        |-> "templated_image",
                                              provider    |-> "templated",
                                              storage_url |-> RenderedImage(p)]

\* The recreate call and the re-host both failed, and the run posted the
\* render URL and returned.
C32_Witness ==
    \E p \in Procs :
        /\ RecreateFellBack(p)
        /\ RehostFailed(p)
        /\ proc[p].pc = "returned"
        /\ proc[p].blogImageUrl = RenderUrl
        /\ proc[p].pinImage = RenderUrl
        /\ assets[proc[p].assetId].type = "templated_image"

\* The recreate call failed, the re-host succeeded, and the run posted the
\* re-hosted copy.
C32_WitnessRehosted ==
    \E p \in Procs :
        /\ RecreateFellBack(p)
        /\ ~RehostFailed(p)
        /\ proc[p].pc = "returned"
        /\ proc[p].pinImage = RehostedUrl

\* The social-post call of run p was made and did not fail.
SocialPostSucceeded(p) ==
    /\ SocialCalls(p) # {}
    /\ proc[p].err \notin {"Getlate pin failed: " \o AdapterError,
                           "Pinterest post failed: " \o AdapterError}

\* C33 as stated: the social-post step calls the poster first and inserts the
\* Asset row after it: a run that has inserted its Asset row has made a
\* social-post call that succeeded.
C33_AsStated ==
    \A p \in Procs : proc[p].assetId # 0 => SocialPostSucceeded(p)

\* C34 as stated: a configuration that loadConfig accepts with DRY_RUN false
\* supplies every setting the chosen image and social path reads: no run
\* fails, after its Run row or its blog article was created, because a
\* setting it reads is missing.
C34_AsStated ==
    (proc[1].configError = "" /\ proc[1].runRow) => proc[1].missing = ""

\* The cache holds a token that expires more than 60 seconds after now.
ExpiresAfterSkew == proc.cached # << >> /\ proc.cached[1].expiresAt - now > 60000

\* C35: a call returns the static token when one is set; otherwise it
\* returns the cached token exactly when that token expires more than 60
\* seconds after now, and starts a fetch in every other case; a fetch that
\* answers stores its token, and one that fails leaves the cache unchanged.
C35_TokenCache ==
    [][\A p \in Procs :
         LET call == proc.call[p] IN
         /\ (call.pc = "idle" /\ call'.pc # "idle") =>
              /\ config.SHOPIFY_ACCESS_TOKEN # "" =>
                     call'.pc = "returned" /\ call'.token = config.SHOPIFY_ACCESS_TOKEN
              /\ (config.SHOPIFY_ACCESS_TOKEN = "" /\ ExpiresAfterSkew) =>
                     call'.pc = "returned" /\ call'.token = proc.cached[1].token
              /\ (config.SHOPIFY_ACCESS_TOKEN = "" /\ ~ExpiresAfterSkew) =>
                     call'.pc = "fetching"
              /\ proc'.cached = proc.cached
         /\ (call.pc = "fetching" /\ call'.pc = "returned") =>
              /\ proc'.cached # << >>
              /\ proc'.cached[1].token = call'.token
              /\ call'.fetched
         /\ (call.pc = "fetching" /\ call'.pc = "rejected") =>
              proc'.cached = proc.cached
    ]_vars

\* A call returned the token an earlier fetch had cached, without fetching,
\* after the fetch of the other call failed and left the cache as it was.
C35_Witness ==
    /\ proc.call[1].pc = "rejected"
    /\ proc.call[2].pc = "returned"
    /\ ~proc.call[2].fetched
    /\ proc.cached # << >>
    /\ proc.call[2].token = proc.cached[1].token
    /\ now > 0

\* How many times run p called the adapter.
TimesCalled(p, adapter) ==
    Cardinality({i \in DOMAIN proc[p].calls : proc[p].calls[i] = adapter})

\* The adapters of a run other than the image upload, which a run calls once
\* for each image it hosts.
SingleCallAdapters ==
    {"trends", "context", "content", "image_edit", "image_generate", "template_render",
     "image_recreate", "rehost", "blog_publish", "social_getlate", "social_pinterest"}

\* A step that adds a row to the table adds one row, for a run that had none.
OneRowPerRun(table, tableNext, idOf(_), idNextOf(_)) ==
    Len(tableNext) > Len(table) =>
        /\ Len(tableNext) = Len(table) + 1
        /\ \E p \in Procs : idOf(p) = 0 /\ idNextOf(p) = Len(tableNext)

\* C36: no adapter call is repeated: a run calls the blog-publish adapter at
\* most once and a social-posting adapter at most once (and every other
\* adapter but the image upload at most once), and it commits at most one
\* Topic row and inserts at most one Post, one Asset and one Pin row.
C36_NoAutomaticRetry ==
    /\ [](\A p \in Procs :
            /\ \A adapter \in SingleCallAdapters : TimesCalled(p, adapter) <= 1
            /\ TimesCalled(p, "social_getlate") + TimesCalled(p, "social_pinterest") <= 1
            /\ TimesCalled(p, "upload") <= 3)
    /\ [][/\ OneRowPerRun(topics, topics', LAMBDA p : proc[p].topicId,
                          LAMBDA p : proc'[p].topicId)
          /\ OneRowPerRun(posts, posts', LAMBDA p : proc[p].postId,
                          LAMBDA p : proc'[p].postId)
          /\ OneRowPerRun(assets, assets', LAMBDA p : proc[p].assetId,
                          LAMBDA p : proc'[p].assetId)
          /\ Len(pins') > Len(pins) =>
                /\ Len(pins') = Len(pins) + 1
                /\ \A i \in 1..Len(pins) : pins[i].post_id # pins'[Len(pins')].post_id
          /\ \A p \in Procs :
                /\ proc[p].topicId # 0 => proc'[p].topicId = proc[p].topicId
                /\ proc[p].postId # 0 => proc'[p].postId = proc[p].postId
                /\ proc[p].assetId # 0 => proc'[p].assetId = proc[p].assetId
       ]_vars

\* A run went through: one blog-publish call, one social-post call, and its
\* Topic, Post, Asset and Pin rows.
C36_Witness ==
    \E p \in Procs :
        /\ proc[p].pc = "returned"
        /\ TimesCalled(p, "blog_publish") = 1
        /\ TimesCalled(p, "social_getlate") = 1
        /\ TimesCalled(p, "upload") = 2
        /\ proc[p].topicId # 0 /\ proc[p].postId # 0 /\ proc[p].assetId # 0
        /\ \E i \in 1..Len(pins) : pins[i].post_id = proc[p].postId

\* Run p has a Run row and it is finalized failed.
FinalizedFailed(p) ==
    /\ proc[p].runId \in 1..Len(runs)
    /\ runs[proc[p].runId].status = "failed"

\* C37 as stated: a run that ends with no candidate, or with every candidate
\* used, and with no call failed has its Run finalized failed and returns
\* without raising; a run in which an adapter or Ledger call failed raises,
\* and its Run is finalized failed by then.
C37_AsStated ==
    \A p \in Procs :
        /\ (proc[p].pc \in Settled /\ Thrown(p) = "" /\ proc[p].topicId = 0) =>
              /\ proc[p].pc = "returned"
              /\ FinalizedFailed(p)
              /\ runs[proc[p].runId].error_summary \in {NoTopicSummary, AllUsedSummary}
        /\ proc[p].pc = "rejected" => FinalizedFailed(p)

\* The first half alone: such a run has returned without raising, its Run
\* failed with one of the two summaries.
C37_QuietEnd ==
    \A p \in Procs :
        (proc[p].pc \in Settled /\ Thrown(p) = "" /\ proc[p].topicId = 0) =>
              /\ proc[p].pc = "returned"
              /\ FinalizedFailed(p)
              /\ runs[proc[p].runId].error_summary \in {NoTopicSummary, AllUsedSummary}

-----------------------------------------------------------------------------
(* The aggregator poster, services/getlatePin.ts: one call of               *)
(* createPinViaGetlate, with the requests it sends in the order sent.       *)

PINTEREST_TITLE_MAX == 100
PINTEREST_DESCRIPTION_MAX == 500
PINTEREST_LINK_MAX == 2048

\* Of the characters the pattern [\0-\x1F\x7F] matches, those the inputs hold.
ControlChars == {"\t", "\n", "\r"}

Str(n, c) == [i \in 1..n |-> c]

\* Faulty variant of SliceTo: nothing is cut.
SliceWhole(s, n) == s

\* String.prototype.slice(0, n)
SliceTo(s, n) == SubSeq(s, 1, Min(n, Len(s)))

\* String.prototype.startsWith
startsWith(s, prefix) ==
    Len(s) >= Len(prefix) /\ SubSeq(s, 1, Len(prefix)) = prefix

Http  == <<"h","t","t","p",":","/","/">>
Https == <<"h","t","t","p","s",":","/","/">>

\* Lines 15-17.
cleanText(s) == trim(SelectSeq(s, LAMBDA c : c \notin ControlChars))

\* String.prototype.trim, for the space and the control characters that are
\* white space.
RECURSIVE TrimWhite(_)
TrimWhite(s) ==
    IF s # <<>> /\ Head(s) \in ControlChars \cup {" "} THEN TrimWhite(Tail(s))
    ELSE IF s # <<>> /\ s[Len(s)] \in ControlChars \cup {" "}
    THEN TrimWhite(SubSeq(s, 1, Len(s) - 1))
    ELSE s

\* s.split("/").filter(Boolean)
RECURSIVE PathParts(_, _, _)
PathParts(s, part, acc) ==
    IF s = <<>> THEN (IF part = <<>> THEN acc ELSE Append(acc, part))
    ELSE IF Head(s) = "/"
    THEN PathParts(Tail(s), <<>>, IF part = <<>> THEN acc ELSE Append(acc, part))
    ELSE PathParts(Tail(s), Append(part, Head(s)), acc)

\* new URL(s) for a string with the scheme http or https, or with no scheme:
\* whether it parses, its hostname and its pathname.
ParseUrl(s) ==
    LET rest == IF startsWith(s, Https) THEN SubSeq(s, Len(Https) + 1, Len(s))
                ELSE IF startsWith(s, Http) THEN SubSeq(s, Len(Http) + 1, Len(s))
                ELSE <<>>
        slashes == {i \in 1..Len(rest) : rest[i] = "/"}
        hostEnd == IF slashes = {} THEN Len(rest) + 1
                   ELSE CHOOSE i \in slashes : \A j \in slashes : i <= j
        host == SubSeq(rest, 1, hostEnd - 1)
    IN  [ok       |-> host # <<>> /\ \A i \in 1..Len(host) : host[i] # " ",
         hostname |-> host,
         pathname |-> SubSeq(rest, hostEnd, Len(rest))]

PinterestHost == <<"p","i","n","t","e","r","e","s","t",".","c","o","m">>

\* Lines 35-49: the board named by a Pinterest URL, or the id as it is.
boardFromUrl(boardId) ==
    LET boardUrl  == ParseUrl(boardId)
        pathParts == PathParts(boardUrl.pathname, <<>>, <<>>)
    IN  IF boardUrl.ok /\ includes(boardUrl.hostname, PinterestHost)
        THEN IF Len(pathParts) >= 2 THEN pathParts[1] \o <<"/">> \o pathParts[2]
             ELSE IF Len(pathParts) = 1 THEN pathParts[1]
             ELSE boardId
        ELSE boardId

\* Lines 19-51: the sanitized input, or the error thrown.
sanitizeForPinterest(input) ==
    LET title       == SliceTo(cleanText(input.title), PINTEREST_TITLE_MAX)
        description == SliceTo(cleanText(input.description), PINTEREST_DESCRIPTION_MAX)
        link        == SliceTo(cleanText(input.link), PINTEREST_LINK_MAX)
        boardId     == TrimWhite(input.boardId)
        out(error)  == [error |-> error, title |-> title, description |-> description,
                        link |-> link, boardId |-> boardFromUrl(boardId)]
    IN  IF link = <<>>
        THEN out("Pin destination link is required (e.g. blog article URL)")
        ELSE IF ~startsWith(link, Http) /\ ~startsWith(link, Https)
        THEN out("Pin link must be a valid HTTP(S) URL")
        ELSE IF boardId = <<>>
        THEN out("Pinterest board ID is required and cannot be empty")
        ELSE out("")

X == <<"x">>

PosterTitles ==
    { <<>>, <<"P","i","n">>, <<" ","\t","P","i","\n","n"," ">>,
      Str(PINTEREST_TITLE_MAX, "a"), Str(PINTEREST_TITLE_MAX + 1, "a"),
      <<"\t">> \o Str(PINTEREST_TITLE_MAX + 1, "a") }

PosterDescriptions ==
    { <<"d">>, Str(PINTEREST_DESCRIPTION_MAX + 1, "d") }

PosterLinks ==
    { <<>>, <<" ","\n"," ">>, <<"f","t","p",":","/","/">> \o X, Http \o X,
      <<" ">> \o Https \o X \o <<"/","a"," ">>, Http, <<"h","t","\t","t","p",":","/","/">> \o X,
      <<"H","T","T","P",":","/","/">> \o X, X \o Https \o X,
      Https \o Str(PINTEREST_LINK_MAX, "a") }

PosterBoards ==
    { <<>>, <<" ","\t">>, <<"1","2","3">>,
      Https \o PinterestHost \o <<"/","u","/","b","/">>,
      Https \o <<"w","w","w",".">> \o PinterestHost \o <<"/","u">>,
      Https \o PinterestHost \o <<"/">>,
      Https \o X \o <<"/","u","/","b">> }

\* imageUrl and imageBase64 of the input: <<>> stands for undefined.
PosterImages ==
    { [imageUrl |-> Https \o X, imageBase64 |-> <<>>],
      [imageUrl |-> <<>>, imageBase64 |-> X],
      [imageUrl |-> <<>>, imageBase64 |-> <<>>],
      [imageUrl |-> X, imageBase64 |-> X] }

PosterInit ==
    /\ \E title \in PosterTitles, description \in PosterDescriptions,
          link \in PosterLinks, boardId \in PosterBoards, image \in PosterImages :
          proc = [pc        |-> "sanitizeForPinterest",
                  input     |-> [title |-> title, description |-> description,
                                 link |-> link, boardId |-> boardId,
                                 imageUrl |-> image.imageUrl,
                                 imageBase64 |-> image.imageBase64],
                  sanitized |-> <<>>,
                  imageUrl  |-> <<>>,
                  requests  |-> <<>>,
                  error     |-> ""]
    /\ config = [DRY_RUN |-> FALSE, ALLOW_TOPIC_REUSE |-> FALSE,
                 BOXNCASE_MCP_URL |-> TRUE, GETLATE_API_KEY |-> TRUE,
                 TEMPLATED |-> TRUE, TEMPLATED_PAGE_COUNT |-> TRUE]
    /\ runs = <<>>
    /\ topics = <<>>
    /\ posts = <<>>
    /\ assets = <<>>
    /\ pins = <<>>
    /\ logs = {}
    /\ now = 0
    /\ faults = 0
    /\ limit = 0

\* A request sent with fetch: the two of the upload carry no pin fields.
Request(to, body) ==
    [to |-> to, title |-> body.title, description |-> body.description,
     link |-> body.link, boardId |-> body.boardId]

NoBody == [title |-> <<>>, description |-> <<>>, link |-> <<>>, boardId |-> <<>>]

\* Line 131.
Sanitize ==
    /\ proc.pc = "sanitizeForPinterest"
    /\ LET sanitized == sanitizeForPinterest(proc.input)
       IN  proc' = IF sanitized.error # ""
                   THEN [proc EXCEPT !.pc = "raised", !.error = sanitized.error]
                   ELSE [proc EXCEPT !.pc = "image", !.sanitized = <<sanitized>>,
                                     !.imageUrl = proc.input.imageUrl]
    /\ UNCHANGED <<config, limit, ledger, faults>>

\* Lines 132-142, with uploadImageToGetlate, lines 77-109: the presign
\* request and the PUT of the bytes, either of which may be answered not ok.
ResolveImage ==
    /\ proc.pc = "image"
    /\ IF proc.imageUrl # <<>>
       THEN proc' = [proc EXCEPT !.pc = "summary"]
       ELSE IF proc.input.imageBase64 # <<>>
       THEN \E answer \in {"ok", "presign", "put"} :
               proc' = [proc EXCEPT
                   !.requests = @ \o <<Request("media/presign", NoBody)>>
                                  \o (IF answer = "presign" THEN <<>>
                                      ELSE <<Request("uploadUrl", NoBody)>>),
                   !.imageUrl = IF answer = "ok" THEN Https \o X \o <<"/","p">> ELSE <<>>,
                   !.pc = IF answer = "ok" THEN "summary" ELSE "raised",
                   !.error = IF answer = "presign" THEN "Getlate presign failed"
                             ELSE IF answer = "put" THEN "Getlate upload failed"
                             ELSE ""]
       ELSE proc' = [proc EXCEPT !.pc = "raised",
                        !.error = "createPinViaGetlate requires imageUrl or imageBase64"]
    /\ UNCHANGED <<config, limit, ledger, faults>>

\* Lines 161-186: the payload summary parses the link and the image URL and
\* the call raises when either does not parse.
PayloadSummary ==
    /\ proc.pc = "summary"
    /\ proc' = IF ParseUrl(proc.sanitized[1].link).ok /\ ParseUrl(proc.imageUrl).ok
               THEN [proc EXCEPT !.pc = "posts"]
               ELSE [proc EXCEPT !.pc = "raised", !.error = "Pin link is not a valid URL"]
    /\ UNCHANGED <<config, limit, ledger, faults>>

\* Lines 188-227: the create-post request and what is made of its answer.
SendCreatePost ==
    /\ proc.pc = "posts"
    /\ \E answer \in {"ok", "not ok", "not JSON", "no id"} :
          proc' = [proc EXCEPT
              !.requests = Append(@, Request("posts", proc.sanitized[1])),
              !.pc = IF answer = "ok" THEN "returned" ELSE "raised",
              !.error = CASE answer = "ok" -> ""
                          [] answer = "not ok" -> "Getlate create post failed"
                          [] answer = "not JSON" -> "Getlate response not JSON"
                          [] OTHER -> "Getlate did not return post id"]
    /\ UNCHANGED <<config, limit, ledger, faults>>

PosterNext ==
    \/ Sanitize
    \/ ResolveImage
    \/ PayloadSummary
    \/ SendCreatePost

PosterSpec == PosterInit /\ [][PosterNext]_vars

\* The positions of the run's trend list among the ten highest-scored
\* relevant items.
TopTen ==
    {i \in KeptPositions(proc[1].trends, proc[1].contextKeywords) :
        RankOf(i, proc[1].trends, proc[1].contextKeywords) <= 10}

\* Every one of the ten highest-scored relevant items has a Topic row in
\* status selected or used; there is at least one such item.
TopTenAllUsed ==
    /\ TopTen # {}
    /\ \A i \in TopTen : isTopicUsed(proc[1].trends[i].keyword)

\* The run has walked its candidates.
Walked == proc[1].pc \notin {"score", "isTopicUsed", "finalize_all_used"}

Visible(text) ==
    LET kept == SelectSeq(text, LAMBDA c : ~(c \in {"\t", "\n", "\r"}))
    IN  IF \A i \in 1..Len(kept) : kept[i] = " " THEN <<>>
        ELSE SubSeq(kept,
                    CHOOSE i \in 1..Len(kept) :
                        kept[i] # " " /\ \A j \in 1..(i - 1) : kept[j] = " ",
                    CHOOSE i \in 1..Len(kept) :
                        kept[i] # " " /\ \A j \in (i + 1)..Len(kept) : kept[j] = " ")

\* text begins with the characters of prefix.
Begins(text, prefix) ==
    /\ Len(text) >= Len(prefix)
    /\ \A i \in 1..Len(prefix) : text[i] = prefix[i]

\* The input's link is empty or starts with neither http:// nor https://, or
\* its board id is empty.
InvalidLinkOrBoard ==
    \/ Visible(proc.input.link) = <<>>
    \/ /\ ~Begins(Visible(proc.input.link), <<"h","t","t","p",":","/","/">>)
       /\ ~Begins(Visible(proc.input.link), <<"h","t","t","p","s",":","/","/">>)
    \/ Visible(proc.input.boardId) = <<>>

\* C39: no create-post request has a title of more than 100 characters, a
\* description of more than 500, a link that is empty or starts with neither
\* http:// nor https://, or an empty board id; a call whose link or board id
\* is invalid raises without having sent any request.
C39_NoInvalidCreatePost ==
    /\ \A i \in 1..Len(proc.requests) :
          proc.requests[i].to = "posts" =>
              /\ Len(proc.requests[i].title) <= 100
              /\ Len(proc.requests[i].description) <= 500
              /\ proc.requests[i].link # <<>>
              /\ \/ Begins(proc.requests[i].link, <<"h","t","t","p",":","/","/">>)
                 \/ Begins(proc.requests[i].link, <<"h","t","t","p","s",":","/","/">>)
              /\ proc.requests[i].boardId # <<>>
    /\ InvalidLinkOrBoard =>
          /\ proc.requests = <<>>
          /\ proc.pc \in {"sanitizeForPinterest", "raised"}

\* A create-post request was sent for an input whose title and description
\* were over the limits, cut to 100 and 500 characters.
C39_Witness ==
    /\ Len(proc.input.title) > 100
    /\ Len(proc.input.description) > 500
    /\ proc.requests # <<>>
    /\ proc.requests[Len(proc.requests)].to = "posts"
    /\ Len(proc.requests[Len(proc.requests)].title) = 100
    /\ Len(proc.requests[Len(proc.requests)].description) = 500

\* A call with image bytes to upload and an empty board id has raised with
\* no request sent.
C39_WitnessRaised ==
    /\ InvalidLinkOrBoard
    /\ proc.input.imageBase64 # <<>>
    /\ proc.input.imageUrl = <<>>
    /\ proc.pc = "raised"
    /\ proc.requests = <<>>

====
